---- MODULE Spec2Model ----
(***************************************************************************)
(* Vivaah.AI chat request handler (src/app/api/chat/route.ts): intent      *)
(* routing, vendor sub-flows, merge / filter / shortlist and the streamed  *)
(* response, with every collaborator (moderation, vector index, relational *)
(* store, web search, text generation) as a nondeterministic outcome.      *)
(* Texts are TLA+ strings; the classifiers and parsers work on their       *)
(* characters, as the regular expressions of the source do.                *)
(* Spec is the handler of one request; FunctionSpec applies the handler's  *)
(* functions, the client's payload readers and the /api/search handler to  *)
(* inputs of their own; LookupSpec runs the relational lookups of a        *)
(* generic search with many candidates; PineSpec runs concurrent searches  *)
(* of the vector search tool (tools/search-vector-database.ts).            *)
(***************************************************************************)
EXTENDS Integers, Sequences, FiniteSets, TLC

(* ------------------------------------------------------------------------ *)
(* Characters and strings                                                   *)
(* ------------------------------------------------------------------------ *)

(* F applied to the value of v: a local constant, computed once *)
With(v, F(_)) == CHOOSE r \in {F(x) : x \in {v}} : TRUE

Ch(s, i) == IF i >= 1 /\ i <= Len(s) THEN SubSeq(s, i, i) ELSE ""

UpperChars == <<"A","B","C","D","E","F","G","H","I","J","K","L","M",
                "N","O","P","Q","R","S","T","U","V","W","X","Y","Z">>
LowerChars == <<"a","b","c","d","e","f","g","h","i","j","k","l","m",
                "n","o","p","q","r","s","t","u","v","w","x","y","z">>
DigitChars == <<"0","1","2","3","4","5","6","7","8","9">>

DigitSet == {DigitChars[i] : i \in 1..10}
WordChars ==
    {UpperChars[i] : i \in 1..26} \cup {LowerChars[i] : i \in 1..26} \cup DigitSet \cup {"_"}
LowerOf ==
    [c \in {UpperChars[i] : i \in 1..26} |-> LowerChars[CHOOSE i \in 1..26 : UpperChars[i] = c]]

IsDigit(c) == c \in DigitSet
DigitVal(c) == With(c, LAMBDA x : (CHOOSE i \in 1..10 : DigitChars[i] = x) - 1)
IsSpace(c) == c \in {" ", "\n", "\t", "\r"}
(* the class \w *)
IsWordChar(c) == c \in WordChars

LowerCh(c) == With(c, LAMBDA x : IF x \in DOMAIN LowerOf THEN LowerOf[x] ELSE x)

(* String.prototype.toLowerCase *)
ToLower(s) ==
    With(s, LAMBDA v :
        LET low[i \in 0..Len(v)] == IF i = 0 THEN "" ELSE low[i - 1] \o LowerCh(Ch(v, i))
        IN  low[Len(v)])

(* String.prototype.trim *)
Trim(s) ==
    With(s, LAMBDA v :
        IF \A i \in 1..Len(v) : IsSpace(Ch(v, i)) THEN ""
        ELSE SubSeq(v,
                CHOOSE a \in 1..Len(v) :
                    ~IsSpace(Ch(v, a)) /\ \A h \in 1..(a - 1) : IsSpace(Ch(v, h)),
                CHOOSE b \in 1..Len(v) :
                    ~IsSpace(Ch(v, b)) /\ \A h \in (b + 1)..Len(v) : IsSpace(Ch(v, h))))

(* the literal k stands at position i of t *)
MatchAt(t, k, i) == i >= 1 /\ i + Len(k) - 1 <= Len(t) /\ SubSeq(t, i, i + Len(k) - 1) = k
(* String.prototype.includes *)
Includes(t, k) == \E i \in 1..(Len(t) + 1) : MatchAt(t, k, i)
(* the regular expression assertion \b between characters i-1 and i *)
Boundary(t, i) == IsWordChar(Ch(t, i - 1)) # IsWordChar(Ch(t, i))
(* /\bk\b/ matches at position i *)
WordAt(t, k, i) == Boundary(t, i) /\ MatchAt(t, k, i) /\ Boundary(t, i + Len(k))
HasWord(t, k) == \E i \in 1..Len(t) : WordAt(t, k, i)

(* ------------------------------------------------------------------------ *)
(* Intent classifier                                                        *)
(* ------------------------------------------------------------------------ *)

vendorKeywords ==
    {"vendor", "vendors", "caterer", "caterers", "venue", "venues", "wedding",
     "photographer", "photographers", "makeup", "decorator", "decor", "dj",
     "banquet", "vendors in", "vendors near", "best caterers", "top caterers", "guide"}
cityKeywords == {"mumbai", "bombay"}

(* faulty variant of isVendorQuery: every non-empty text is a vendor query *)
AnyTextIsVendorQuery(text) == text # ""

isVendorQuery(text) ==
    /\ text # ""
    /\ \E t \in {ToLower(text)} :
          (\E k \in vendorKeywords : Includes(t, k)) \/ (\E c \in cityKeywords : Includes(t, c))

guideWords ==
    {"guide", "best", "top", "recommend", "who should i", "find me",
     "best caterers", "top caterers", "guide to"}

(* /\bcaterer|caterers|vendors|venues\b/ : the alternation binds weaker than \b *)
GuideCategoryTest(t) ==
    \/ \E i \in 1..Len(t) : Boundary(t, i) /\ MatchAt(t, "caterer", i)
    \/ Includes(t, "caterers")
    \/ Includes(t, "vendors")
    \/ \E i \in 1..Len(t) : MatchAt(t, "venues", i) /\ Boundary(t, i + 6)

isGuideQuery(text) ==
    /\ text # ""
    /\ \E t \in {ToLower(text)} : (\E k \in guideWords : HasWord(t, k)) /\ GuideCategoryTest(t)

moreDetailsTriggers == <<"more details on", "details on", "tell me more about">>

isMoreDetailsQuery(text) ==
    /\ text # ""
    /\ \E t \in {ToLower(text)} : \E j \in 1..3 : HasWord(t, moreDetailsTriggers[j])

isReviewsQuery(text) ==
    /\ text # ""
    /\ \E t \in {ToLower(text)} : \E k \in {"reviews", "ratings", "feedback"} : HasWord(t, k)

(* ------------------------------------------------------------------------ *)
(* Parameter parser                                                         *)
(* ------------------------------------------------------------------------ *)

(* A JavaScript number n = num / den (den a power of ten), or null (ok = FALSE). *)
NoNumber == [ok |-> FALSE, num |-> 0, den |-> 1]
RECURSIVE Reduce(_, _)
Reduce(num, den) ==
    IF den > 1 /\ num % 10 = 0 THEN Reduce(num \div 10, den \div 10)
    ELSE [ok |-> TRUE, num |-> num, den |-> den]
Num(n) == [ok |-> TRUE, num |-> n, den |-> 1]
(* JavaScript truthiness of a number or null *)
Truthy(n) == n.ok /\ n.num # 0

(* end of the longest run of characters that satisfy Test and starts at p *)
RunOf(Test(_), s, p) ==
    IF p > Len(s) THEN p
    ELSE CHOOSE e \in p..(Len(s) + 1) :
            /\ \A h \in p..(e - 1) : Test(Ch(s, h))
            /\ e = Len(s) + 1 \/ ~Test(Ch(s, e))

(* first index >= p of s that is not white space (Len(s) + 1 if none) *)
WsEnd(s, p) == RunOf(IsSpace, s, p)

(* end of the token [\d,.]* that starts at p *)
IsNumTokenChar(c) == IsDigit(c) \/ c \in {",", "."}
NumTokenEnd(s, p) == RunOf(IsNumTokenChar, s, p)

(* nRaw.replace(/,/g, "") *)
RemoveCommas(s) ==
    With(s, LAMBDA v :
        LET out[i \in 0..Len(v)] ==
                IF i = 0 THEN "" ELSE out[i - 1] \o (IF Ch(v, i) = "," THEN "" ELSE Ch(v, i))
        IN  out[Len(v)])

CountDots(s) == Cardinality({i \in 1..Len(s) : Ch(s, i) = "."})

(* value of a string of digits *)
DigitsVal(s) ==
    With(s, LAMBDA v :
        LET val[i \in 0..Len(v)] == IF i = 0 THEN 0 ELSE val[i - 1] * 10 + DigitVal(Ch(v, i))
        IN  val[Len(v)])

RECURSIVE Pow10(_)
Pow10(k) == IF k = 0 THEN 1 ELSE 10 * Pow10(k - 1)

(* Number(nRaw) for nRaw a string of digits and dots that starts with a digit *)
ToNumber(nRaw) ==
    IF CountDots(nRaw) > 1 THEN NoNumber
    ELSE IF CountDots(nRaw) = 0 THEN Num(DigitsVal(nRaw))
    ELSE LET d == CHOOSE i \in 1..Len(nRaw) : Ch(nRaw, i) = "."
             frac == SubSeq(nRaw, d + 1, Len(nRaw))
         IN  Reduce(DigitsVal(SubSeq(nRaw, 1, d - 1)) * Pow10(Len(frac)) + DigitsVal(frac),
                    Pow10(Len(frac)))

budgetUnits == <<"lakh", "lakhs", "lacs", "l", "₹", "rs", "rupees", "rupee", "inr">>

(* m[2] lower-cased: the first alternative of the unit group that stands at p *)
UnitAt(t, p) ==
    IF \E j \in 1..Len(budgetUnits) : MatchAt(t, budgetUnits[j], p)
    THEN budgetUnits[CHOOSE j \in 1..Len(budgetUnits) :
            /\ MatchAt(t, budgetUnits[j], p)
            /\ \A h \in 1..(j - 1) : ~MatchAt(t, budgetUnits[h], p)]
    ELSE ""

(* faulty variant of RoundLakh: the product is not rounded *)
ExactLakh(n) == Reduce(n.num * 100000, n.den)

(* Math.round(n * 100000) *)
RoundLakh(n) == Num((2 * n.num * 100000 + n.den) \div (2 * n.den))

(* the value the function returns for the number n and the unit *)
BudgetOf(n, unit) ==
    IF ~n.ok THEN NoNumber
    ELSE IF Includes(unit, "lakh") \/ unit = "l" \/ Includes(unit, "lacs") THEN RoundLakh(n)
    ELSE n

(* the match of the number pattern is the leftmost: it starts at the first *)
(* digit of the text                                                       *)
parseBudget(text) ==
    IF text = "" \/ ~\E i \in 1..Len(text) : IsDigit(Ch(text, i)) THEN NoNumber
    ELSE With(CHOOSE i \in 1..Len(text) :
                    IsDigit(Ch(text, i)) /\ \A h \in 1..(i - 1) : ~IsDigit(Ch(text, h)),
         LAMBDA i : With(NumTokenEnd(text, i),
         LAMBDA e : With(RemoveCommas(SubSeq(text, i, e - 1)),
         LAMBDA nRaw : With(ToNumber(nRaw),
         LAMBDA n : With(ToLower(text),
         LAMBDA t : With(WsEnd(text, e),
         LAMBDA p : With(UnitAt(t, p),
         LAMBDA unit : BudgetOf(n, unit))))))))

cats == <<"caterer", "caterers", "decorator", "decorators", "venue", "venues",
          "photographer", "photographers", "dj", "makeup">>

(* c.replace(/s$/, "") *)
StripS(c) == IF Len(c) > 0 /\ Ch(c, Len(c)) = "s" THEN SubSeq(c, 1, Len(c) - 1) ELSE c

(* null is modelled as "" (both are falsy and no category is empty) *)
parseCategory(text) ==
    IF text = "" THEN ""
    ELSE With(ToLower(text), LAMBDA t :
            IF ~\E j \in 1..Len(cats) : Includes(t, cats[j]) THEN ""
            ELSE StripS(cats[CHOOSE j \in 1..Len(cats) :
                    /\ Includes(t, cats[j])
                    /\ \A h \in 1..(j - 1) : ~Includes(t, cats[h])]))

localities == {"powai", "bandra", "andheri", "khar", "juhu", "thane", "navi mumbai",
               "lower parel", "colaba", "churchgate"}

looksSpecific(text) ==
    \/ Truthy(parseBudget(text))
    \/ parseCategory(text) # ""
    \/ \E t \in {ToLower(text)} : \E k \in localities : HasWord(t, k)

HasLineBreak(s) == \E i \in 1..Len(s) : Ch(s, i) \in {"\n", "\r"}

(* /\b(?:trigger1|trigger2|...)\s+(.+)$/i at position i: the captured group, *)
(* trimmed.  The group is what follows the white space after the trigger, up *)
(* to the end of the text, and must hold no line break.                      *)
TriggerAt(t, triggers, i) ==
    /\ Boundary(t, i)
    /\ \E j \in 1..Len(triggers) :
          /\ MatchAt(t, triggers[j], i)
          /\ \E p \in {i + Len(triggers[j])} :
                /\ p <= Len(t) /\ IsSpace(Ch(t, p))
                /\ \E w \in {WsEnd(t, p)} :
                      /\ ~HasLineBreak(SubSeq(t, w, Len(t)))
                      /\ \/ w <= Len(t)
                         \/ w - p >= 2 /\ Ch(t, Len(t)) \notin {"\n", "\r"}

(* the result null and the result "" are both modelled as "" (both falsy) *)
ExtractAfter(text, triggers) ==
    IF text = "" THEN ""
    ELSE With(ToLower(text), LAMBDA t :
            IF ~\E i \in 1..Len(t) : TriggerAt(t, triggers, i) THEN ""
            ELSE With(CHOOSE i \in 1..Len(t) :
                        TriggerAt(t, triggers, i) /\ \A h \in 1..(i - 1) : ~TriggerAt(t, triggers, h),
                 LAMBDA i : With(CHOOSE j \in 1..Len(triggers) : MatchAt(t, triggers[j], i),
                 LAMBDA j : Trim(SubSeq(text, WsEnd(t, i + Len(triggers[j])), Len(text))))))

extractVendorNameFromMoreDetails(text) == ExtractAfter(text, moreDetailsTriggers)

reviewsTriggers == <<"reviews of", "reviews for", "reviews on">>
extractVendorNameFromReviews(text) == ExtractAfter(text, reviewsTriggers)

(* ------------------------------------------------------------------------ *)
(* Objects.  A JavaScript object is a function on its keys; a key that is    *)
(* undefined or null is left out of the domain.                              *)
(* ------------------------------------------------------------------------ *)

EmptyObj == [k \in {} |-> 0]
Has(o, k) == k \in DOMAIN o
(* { ...a, ...b } *)
Spread(a, b) == b @@ a
Without(o, k) == [f \in (DOMAIN o) \ {k} |-> o[f]]
(* the first key of ks that o holds (a ?? b ?? c), or 0 for none *)
FirstKey(o, ks) ==
    IF \E j \in 1..Len(ks) : Has(o, ks[j])
    THEN CHOOSE j \in 1..Len(ks) : Has(o, ks[j]) /\ \A h \in 1..(j - 1) : ~Has(o, ks[h])
    ELSE 0
(* the first key of ks whose string value is truthy (a || b || c), or 0 *)
FirstTruthy(o, ks) ==
    IF \E j \in 1..Len(ks) : Has(o, ks[j]) /\ o[ks[j]] # ""
    THEN CHOOSE j \in 1..Len(ks) :
            /\ Has(o, ks[j]) /\ o[ks[j]] # ""
            /\ \A h \in 1..(j - 1) : ~(Has(o, ks[h]) /\ o[ks[h]] # "")
    ELSE 0

(* Array.prototype.map and Array.prototype.filter *)
SeqMap(Op(_), s) == With(s, LAMBDA v : <<>> \o [i \in 1..Len(v) |-> Op(v[i])])
SeqFilter(Test(_), s) == SelectSeq(s, Test)
(* Array.prototype.slice(0, n) *)
Slice(s, n) == SubSeq(s, 1, IF Len(s) < n THEN Len(s) ELSE n)

(* ------------------------------------------------------------------------ *)
(* Result normalizer                                                        *)
(* ------------------------------------------------------------------------ *)

(* A vector-search response: null, or an object whose keys hold arrays.  The *)
(* key "$array" stands for a response that is itself an array.               *)
NullResult == [isNull |-> TRUE, keys |-> EmptyObj]
Result(keys) == [isNull |-> FALSE, keys |-> keys]

MatchToRecord(m) ==
    LET md == IF Has(m, "metadata") THEN m.metadata ELSE EmptyObj
        sc == FirstKey(m, <<"score", "similarity">>)
        a  == IF sc = 0 THEN Without(md, "_score")
              ELSE Spread(md, "_score" :> m[<<"score", "similarity">>[sc]])
    IN  IF Has(m, "id") THEN Spread(a, "_id" :> m.id) ELSE Without(a, "_id")

HitToRecord(h) ==
    LET src == FirstKey(h, <<"document", "payload", "metadata">>)
        base == IF src = 0 THEN h ELSE h[<<"document", "payload", "metadata">>[src]]
        sc == FirstKey(h, <<"score", "_score">>)
        a  == IF sc = 0 THEN Without(base, "_score")
              ELSE Spread(base, "_score" :> h[<<"score", "_score">>[sc]])
    IN  IF Has(h, "id") THEN Spread(a, "_id" :> h.id) ELSE Without(a, "_id")

(* an object whose keys in others hold values that are not arrays: for them *)
(* Array.isArray is false                                                   *)
ObjectWith(keys, others) == [isNull |-> FALSE, keys |-> keys, others |-> others]

(* a null or undefined element of an array *)
NullItem == "$null" :> TRUE
IsNullItem(m) == Has(m, "$null")

Returned(v) == [threw |-> FALSE, value |-> v]
Thrown == [threw |-> TRUE, value |-> <<>>]

(* reading m.metadata or h.document of a null element throws a TypeError *)
MapThrows(items) == \E i \in 1..Len(items) : IsNullItem(items[i])

(* the try block *)
TryNormalize(result) ==
    With(result, LAMBDA r :
        IF r.isNull THEN Returned(<<>>)
        ELSE IF Has(r.keys, "$array") THEN Returned(r.keys["$array"])
        ELSE IF Has(r.keys, "matches")
             THEN IF MapThrows(r.keys["matches"]) THEN Thrown
                  ELSE Returned(SeqMap(MatchToRecord, r.keys["matches"]))
        ELSE IF Has(r.keys, "hits")
             THEN IF MapThrows(r.keys["hits"]) THEN Thrown
                  ELSE Returned(SeqMap(HitToRecord, r.keys["hits"]))
        ELSE IF Has(r.keys, "data.matches") THEN Returned(r.keys["data.matches"])
        ELSE IF Has(r.keys, "results") THEN Returned(r.keys["results"])
        ELSE Returned(<<>>))

(* faulty variant of Catch: the exception propagates *)
Rethrow(o) == o

(* catch { return []; } *)
Catch(o) == IF o.threw THEN Returned(<<>>) ELSE o

normalizeVectorResults(result) == Catch(TryNormalize(result)).value

(* ------------------------------------------------------------------------ *)
(* Merge / filter / shortlist                                               *)
(* ------------------------------------------------------------------------ *)

idKeys == <<"vendor_id", "_id", "id">>

(* v.vendor_id || v._id || v.id || (v.metadata && (v.metadata.vendor_id || v.metadata.id)); *)
(* "" when none is truthy                                                    *)
CandidateId(v) ==
    IF FirstTruthy(v, idKeys) # 0 THEN v[idKeys[FirstTruthy(v, idKeys)]]
    ELSE IF Has(v, "metadata") /\ FirstTruthy(v.metadata, <<"vendor_id", "id">>) # 0
         THEN v.metadata[<<"vendor_id", "id">>[FirstTruthy(v.metadata, <<"vendor_id", "id">>)]]
         ELSE ""

NonEmptyStr(x) == x # ""
VendorIds(vectResults) == SeqFilter(NonEmptyStr, SeqMap(CandidateId, vectResults))

nameKeys == <<"name", "title", "vendor_name">>
CandidateName(v) ==
    IF FirstTruthy(v, nameKeys) # 0 THEN v[nameKeys[FirstTruthy(v, nameKeys)]] ELSE ""

(* idToRow[id]: the last row of dbRows that carries the identifier *)
HasRow(dbRows, id) == \E j \in 1..Len(dbRows) : dbRows[j].id = id
RowOf(dbRows, id) ==
    dbRows[CHOOSE j \in 1..Len(dbRows) :
              dbRows[j].id = id /\ \A h \in (j + 1)..Len(dbRows) : dbRows[h].id # id]

(* { ...o, _score: v.k1 ?? v.k2 ?? ... } *)
WithScore(o, v, ks) ==
    IF FirstKey(v, ks) = 0 THEN Without(o, "_score")
    ELSE Spread(o, "_score" :> v[ks[FirstKey(v, ks)]])

displayNameKeys == <<"name", "title", "vendor_name", "provider", "text">>

MergeOne(v, dbRows) ==
    IF CandidateId(v) # "" /\ HasRow(dbRows, CandidateId(v))
    THEN WithScore(RowOf(dbRows, CandidateId(v)), v, <<"_score", "score", "similarity">>)
    ELSE WithScore(
            Spread(IF Has(v, "metadata") THEN v.metadata ELSE v,
                   "name" :> (IF FirstKey(v, displayNameKeys) = 0 THEN "Vendor"
                              ELSE v[displayNameKeys[FirstKey(v, displayNameKeys)]])),
            v, <<"_score", "score">>)

(* faulty variant of Merge: an inner join, candidates without a row are dropped *)
RECURSIVE MergeInnerJoin(_, _)
MergeInnerJoin(vectResults, dbRows) ==
    IF vectResults = <<>> THEN <<>>
    ELSE (IF CandidateId(Head(vectResults)) # "" /\ HasRow(dbRows, CandidateId(Head(vectResults)))
          THEN <<MergeOne(Head(vectResults), dbRows)>> ELSE <<>>)
         \o MergeInnerJoin(Tail(vectResults), dbRows)

(* faulty variant of Merge: the relational rows are appended to the candidates *)
MergeAppendRows(vectResults, dbRows) ==
    (<<>> \o [i \in 1..Len(vectResults) |-> MergeOne(vectResults[i], dbRows)]) \o dbRows

(* for (const v of vectResults) merged.push(...) *)
MergeWalk(vectResults, dbRows) ==
    <<>> \o [i \in 1..Len(vectResults) |-> MergeOne(vectResults[i], dbRows)]

Merge(vectResults, dbRows) ==
    LET merged == MergeWalk(vectResults, dbRows)
    IN  IF Len(merged) = 0 /\ Len(dbRows) > 0 THEN dbRows ELSE merged

(* Number(v.k1 ?? v.k2 ?? v.k3 ?? 0) || 0 *)
PriceBound(v, ks) == IF FirstKey(v, ks) = 0 THEN 0 ELSE v[ks[FirstKey(v, ks)]]

(* budgetVal >= n and budgetVal <= n, for budgetVal = num / den *)
BudgetGE(b, n) == b.num >= n * b.den
BudgetLE(b, n) == b.num <= n * b.den

(* faulty variant of BudgetKeep: the upper bound is never compared *)
BudgetKeepMinOnly(v, budgetVal) ==
    LET mn == PriceBound(v, <<"price_min", "min_price", "price_from">>)
    IN  mn = 0 \/ BudgetGE(budgetVal, mn)

BudgetKeep(v, budgetVal) ==
    LET mn == PriceBound(v, <<"price_min", "min_price", "price_from">>)
        mx == PriceBound(v, <<"price_max", "max_price", "price_to">>)
    IN  IF mn = 0 /\ mx = 0 THEN TRUE
        ELSE IF mn # 0 /\ mx # 0 THEN BudgetGE(budgetVal, mn) /\ BudgetLE(budgetVal, mx)
        ELSE IF mn # 0 /\ mx = 0 THEN BudgetGE(budgetVal, mn)
        ELSE IF mn = 0 /\ mx # 0 THEN BudgetLE(budgetVal, mx)
        ELSE TRUE

BudgetFilter(merged, budgetVal) == SelectSeq(merged, LAMBDA v : BudgetKeep(v, budgetVal))

ShortlistMax == 6

(* faulty variant of Shortlist: no fallback to the unfiltered list *)
ShortlistNoFallback(merged, filtered, budgetVal) ==
    IF Truthy(budgetVal) THEN Slice(filtered, ShortlistMax) ELSE Slice(merged, ShortlistMax)

Shortlist(merged, filtered, budgetVal) ==
    IF Truthy(budgetVal)
    THEN Slice(IF Len(filtered) > 0 THEN filtered ELSE merged, ShortlistMax)
    ELSE Slice(merged, ShortlistMax)

(* ------------------------------------------------------------------------ *)
(* Text extractor and the name taken from an earlier assistant list          *)
(* ------------------------------------------------------------------------ *)

TextPart(text) == [type |-> "text", text |-> text]
OtherPart == [type |-> "file"]
Msg(role, parts) == [role |-> role, parts |-> parts]

RECURSIVE JoinTexts(_)
JoinTexts(parts) ==
    IF parts = <<>> THEN ""
    ELSE (IF Head(parts).type = "text" /\ Has(Head(parts), "text") THEN Head(parts).text ELSE "")
         \o JoinTexts(Tail(parts))

(* null is modelled as "": the function returns text || null, the caller ?? "" *)
getLatestUserText(messages) ==
    IF ~\E i \in 1..Len(messages) : messages[i].role = "user" THEN ""
    ELSE LET i == CHOOSE i \in 1..Len(messages) :
                    messages[i].role = "user"
                    /\ \A h \in (i + 1)..Len(messages) : messages[h].role # "user"
         IN  JoinTexts(messages[i].parts)

(* parts.map(p => p.text || "").join(" ") *)
RECURSIVE JoinSpaced(_)
JoinSpaced(parts) ==
    IF parts = <<>> THEN ""
    ELSE (IF Has(Head(parts), "text") THEN Head(parts).text ELSE "")
         \o (IF Len(parts) > 1 THEN " " ELSE "") \o JoinSpaced(Tail(parts))

(* [^\n–-]: the en dash (U+2013) is no character of a TLA+ string, so no text *)
(* of the model holds one                                                     *)
listStops == {"\n", "-"}
IsListChar(c) == c \notin listStops
RunEnd(t, k) == RunOf(IsListChar, t, k)
LineStart(t, i) == i = 1 \/ Ch(t, i - 1) \in {"\n", "\r"}

(* /^\s*1\.\s*([^\n(en dash)-]+)/m matches from line start i *)
ListItemAt(t, i) ==
    /\ LineStart(t, i)
    /\ MatchAt(t, "1.", WsEnd(t, i))
    /\ \E k0 \in {WsEnd(t, i) + 2} : \E k \in {WsEnd(t, k0)} :
          RunEnd(t, k) > k \/ (k > k0 /\ Ch(t, k - 1) # "\n")

(* m[1].trim() of the first match; "" when there is none *)
FirstListedName(t) ==
    IF ~\E i \in 1..Len(t) : ListItemAt(t, i) THEN ""
    ELSE With(CHOOSE i \in 1..Len(t) : ListItemAt(t, i) /\ \A h \in 1..(i - 1) : ~ListItemAt(t, h),
         LAMBDA i : With(WsEnd(t, WsEnd(t, i) + 2),
         LAMBDA k : Trim(SubSeq(t, k, RunEnd(t, k) - 1))))

(* vendor name of a reviews request: from the text, else from the last *)
(* assistant message                                                    *)
ReviewsVendorName(text, messages) ==
    With(extractVendorNameFromReviews(text), LAMBDA named :
        IF named # "" THEN named
        ELSE IF ~\E i \in 1..Len(messages) : messages[i].role = "assistant" THEN ""
        ELSE With(CHOOSE i \in 1..Len(messages) :
                        messages[i].role = "assistant"
                        /\ \A h \in (i + 1)..Len(messages) : messages[h].role # "assistant",
             LAMBDA i : With(JoinSpaced(messages[i].parts), LAMBDA t : FirstListedName(t))))

(* ------------------------------------------------------------------------ *)
(* The environment: requests, the relational store, the vector index         *)
(* ------------------------------------------------------------------------ *)

MaxMatches == 3

Texts ==
    {"best caterers in Mumbai under 5 lakh",
     "reviews for Sample Caterers",
     "reviews for Spice Route Caterers",
     "More details on Spice Route Caterers",
     "more details on the best caterers",
     "caterers in bandra under 50000",
     "venue in bandra under 70000",
     "caterers in powai under 5 lakh",
     "decorators in powai",
     "wedding",
     "hello there",
     "wedding reviews",
     "wedding details on",
     "caterers feedback and details on Green Leaf Caterers",
     "More details on Royal Feast",
     "Reviews for Royal Feast",
     "best vendors near me"}

MessageLists ==
    {<<>>,
     <<Msg("assistant", <<TextPart("1. Spice Route Caterers - caterer in Mumbai.")>>),
       Msg("user", <<TextPart("wedding "), OtherPart, TextPart("reviews")>>)>>,
     <<Msg("user", <<TextPart("best caterers in mumbai")>>),
       Msg("assistant", <<TextPart("**1. Spice Route Caterers**")>>),
       Msg("user", <<OtherPart>>)>>}

(* invalid: not JSON; empty: JSON without messages array and message string; *)
(* null: the JSON value null                                                  *)
Bodies ==
    {[kind |-> "invalid"], [kind |-> "empty"], [kind |-> "null"]}
    \cup {[kind |-> "message", message |-> t] : t \in Texts}
    \cup {[kind |-> "messages", messages |-> ml] : ml \in MessageLists}

(* rows of the vendors table *)
rowA == [id |-> "A", name |-> "Spice Route Caterers", category |-> "caterer", city |-> "Mumbai",
         min_price |-> 40000, max_price |-> 60000]
rowB == [id |-> "B", name |-> "Royal Feast", category |-> "caterer", city |-> "Mumbai",
         min_price |-> 300000]
rowC == [id |-> "C", name |-> "Green Leaf Caterers", category |-> "caterer", city |-> "Thane"]
VendorsTable == {rowA, rowB, rowC}

(* rows of the vendor_reviews table, by vendor *)
ReviewsOf(id) ==
    IF id = "A" THEN <<[rating |-> 5, body |-> "Great food"], [rating |-> 2, body |-> "Late"]>>
    ELSE IF id = "C" THEN <<[rating |-> 4, body |-> "Fresh"]>>
    ELSE <<>>

(* matches the vector index can return *)
matchA == [id |-> "A", score |-> 95,
           metadata |-> [name |-> "Spice Route Caterers", category |-> "caterer"]]
matchB == [id |-> "pc-b", score |-> 90, metadata |-> [vendor_id |-> "B", name |-> "Royal Feast"]]
matchC == [id |-> "C", score |-> 85, metadata |-> EmptyObj]
matchX == [id |-> "X", score |-> 80,
           metadata |-> [name |-> "Sample Hall", price_min |-> 40000, price_max |-> 60000]]
matchY == [id |-> "Y", score |-> 70, metadata |-> [title |-> "Royal", price_max |-> 200000]]
IndexMatches == {matchA, matchB, matchC, matchX, matchY}

(* the sequences without repetition, of at most n elements of S *)
RECURSIVE SeqsUpTo(_, _)
SeqsUpTo(S, n) ==
    IF n = 0 THEN {<<>>}
    ELSE With(SeqsUpTo(S, n - 1), LAMBDA shorter :
            shorter \cup UNION {{Append(q, x) : x \in S \ {q[i] : i \in 1..Len(q)}} :
                                    q \in {r \in shorter : Len(r) = n - 1}})
MatchLists == SeqsUpTo(IndexMatches, MaxMatches)

(* the orders in which the store can return a set of rows *)
Orders(S) == With(S, LAMBDA T : {q \in SeqsUpTo(T, Cardinality(T)) : Len(q) = Cardinality(T)})

(* ilike("name", `%${nm}%`) *)
NameMatches(r, nm) == \E t \in {ToLower(r.name)} : \E k \in {ToLower(nm)} : Includes(t, k)

(* ------------------------------------------------------------------------ *)
(* Collaborators                                                            *)
(* ------------------------------------------------------------------------ *)

(* isContentFlagged: a verdict, or an exception *)
ModerationOutcomes ==
    {[throws |-> FALSE, flagged |-> FALSE, denialMessage |-> ""],
     [throws |-> FALSE, flagged |-> TRUE, denialMessage |-> "This request is not allowed."],
     [throws |-> FALSE, flagged |-> TRUE, denialMessage |-> ""],
     [throws |-> TRUE, flagged |-> FALSE, denialMessage |-> ""]}

(* callOpenAIChat: the generated text, or null when the key is missing or *)
(* the call fails (it catches its own errors)                             *)
TextGenOutcomes == {"text", "fails", "nokey"}

(* embedding service, client initialisation and index query of one search *)
VectorOutcomes ==
    {[embedding |-> e, init |-> i, query |-> "ok", raw |-> <<>>] :
        e \in {"missing", "throws"}, i \in {TRUE}}
    \cup {[embedding |-> "ok", init |-> FALSE, query |-> "ok", raw |-> <<>>],
          [embedding |-> "ok", init |-> TRUE, query |-> "throws", raw |-> <<>>]}
    \cup {[embedding |-> "ok", init |-> TRUE, query |-> "ok", raw |-> r] : r \in MatchLists}

normalizeMatchToVendor(obj) ==
    LET md == IF Has(obj, "metadata") THEN obj.metadata ELSE EmptyObj
        str(ks) == IF FirstKey(md, ks) = 0 THEN "" ELSE md[ks[FirstKey(md, ks)]]
        base == [name |-> str(<<"name", "title", "vendor_name">>),
                 location |-> str(<<"location", "city">>),
                 category |-> str(<<"category", "vendor_type">>),
                 price_range |-> str(<<"price_range", "price">>),
                 description |-> str(<<"description", "desc">>),
                 raw_metadata |-> md]
        a == IF Has(obj, "id") THEN Spread(base, "id" :> obj.id) ELSE base
    IN  IF FirstKey(obj, <<"score", "similarity">>) = 0 THEN a
        ELSE Spread(a, "_score" :> obj[<<"score", "similarity">>[FirstKey(obj, <<"score", "similarity">>)]])

RawToMatch(m) ==
    LET a == [id |-> m.id, metadata |-> IF Has(m, "metadata") THEN m.metadata ELSE EmptyObj]
    IN  IF FirstKey(m, <<"score", "similarity">>) = 0 THEN a
        ELSE Spread(a, "score" :> m[<<"score", "similarity">>[FirstKey(m, <<"score", "similarity">>)]])

EmptySearch == Result([matches |-> <<>>, vendors |-> <<>>])

(* vectorDatabaseSearch.execute({ query, topK }) under outcome o; reading *)
(* a field of a null match throws inside the inner try, as a failed query *)
execute(query, o) ==
    IF Trim(query) = "" THEN EmptySearch
    ELSE IF o.embedding # "ok" \/ ~o.init THEN EmptySearch
    ELSE IF o.query = "throws" \/ MapThrows(o.raw) THEN EmptySearch
    ELSE Result([matches |-> SeqMap(RawToMatch, o.raw),
                 vendors |-> SeqMap(normalizeMatchToVendor, SeqMap(RawToMatch, o.raw))])

(* faulty variant of ExecuteSteps: the index is queried whenever the query *)
(* is not blank                                                           *)
StepsAlwaysQuery(query, o) ==
    IF Trim(query) = "" THEN <<>> ELSE <<"embedText", "ensurePineInit", "index.query">>

(* the collaborators execute awaits under outcome o, in order *)
ExecuteSteps(query, o) ==
    IF Trim(query) = "" THEN <<>>
    ELSE <<"embedText", "ensurePineInit">>
         \o (IF o.embedding = "ok" /\ o.init THEN <<"index.query">> ELSE <<>>)

NoDetails == [found |-> FALSE, vendor |-> EmptyObj, top_reviews |-> <<>>]
(* getVendorDetails(vendorId); o = "fails" is an error answer of the store *)
getVendorDetails(vendorId, o) ==
    IF o = "ok" /\ \E r \in VendorsTable : r.id = vendorId
    THEN [found |-> TRUE, vendor |-> CHOOSE r \in VendorsTable : r.id = vendorId,
          top_reviews |-> ReviewsOf(vendorId)]
    ELSE NoDetails
DetailsOutcomes == {"ok", "fails", "throws"}

(* ilike("name", ...).limit(1).maybeSingle(): one matching row, or none *)
NameLookupOutcomes(nm) ==
    {[throws |-> TRUE, data |-> EmptyObj], [throws |-> FALSE, data |-> EmptyObj]}
    \cup {[throws |-> FALSE, data |-> r] : r \in {x \in VendorsTable : NameMatches(x, nm)}}

(* in("id", vendorIds): the rows in any order, no data, or an exception *)
IdLookupOutcomes(ids) ==
    With(ids, LAMBDA v :
        {[throws |-> TRUE, data |-> <<>>], [throws |-> FALSE, data |-> <<>>]}
        \cup {[throws |-> FALSE, data |-> q] :
                q \in Orders({r \in VendorsTable : \E j \in 1..Len(v) : v[j] = r.id})})

NameLimit == 3
(* ilike("name", ...).limit(3) *)
NameRowsOutcomes(nm) ==
    With({r \in VendorsTable : NameMatches(r, nm)}, LAMBDA hit :
        With(IF Cardinality(hit) < NameLimit THEN Cardinality(hit) ELSE NameLimit, LAMBDA n :
            {[throws |-> TRUE, data |-> <<>>], [throws |-> FALSE, data |-> <<>>]}
            \cup {[throws |-> FALSE, data |-> q] : q \in {x \in SeqsUpTo(hit, n) : Len(x) = n}}))

WebOutcomes == {"results", "empty", "rejects", "throws"}

(* ------------------------------------------------------------------------ *)
(* The request handler POST: state                                          *)
(* ------------------------------------------------------------------------ *)

VARIABLES
    pc,              \* position of the handler
    body,            \* the request body
    supabase,        \* getSupabase() returned a client
    messages,        \* the normalized message list
    latestUserText,  \* getLatestUserText(messages) ?? ""
    http,            \* the HTTP answer: status and error body (status 0: none yet)
    stream,          \* the segments written to the response stream
    calls,           \* the collaborator calls issued, in order
    errors,          \* the collaborators whose call raised an error, in order
    modOutcome,      \* what the moderation step saw
    flows,           \* the vendor sub-flow bodies entered, in order
    vendorName,      \* more-details / reviews: the extracted vendor name
    vectId,          \* more-details: identifier of the first vector candidate
    vendor,          \* the row found by name (EmptyObj: none)
    details,         \* result of getVendorDetails
    vectResults,     \* generic search: normalized vector candidates
    dbRows,          \* generic search: relational rows
    maybeNames,      \* generic search: names still to look up
    budgetVal,       \* generic search: parseBudget(composedQuery)
    semanticQ,       \* generic search: the semanticQuery sent to the vector search
    merged,          \* generic search: the merged list
    filtered,        \* generic search: the budget-filtered list
    filterApplied,   \* generic search: the budget filter ran
    top,             \* generic search: the shortlist
    fnArg,           \* a function applied on its own: its input
    fnRet,           \* a function applied on its own: its result
    pineClient,        \* search tool module state: the client was created
    pineIndexHandle,   \* search tool module state: the index handle was created
    pineInitAttempted, \* search tool module state: an initialisation was started
    pineEnv,           \* the SDK shape and the configuration of the process
    search             \* the vector searches running in the process

vars == <<pc, body, supabase, messages, latestUserText, http, stream, calls, errors,
          modOutcome, flows, vendorName, vectId, vendor, details, vectResults,
          dbRows, maybeNames, budgetVal, semanticQ, merged, filtered, filterApplied, top,
          fnArg, fnRet, pineClient, pineIndexHandle, pineInitAttempted, pineEnv, search>>

(* what no step of the handler writes *)
pineVars == <<pineClient, pineIndexHandle, pineInitAttempted, pineEnv, search>>
reqVars == <<body, supabase, fnArg, fnRet, pineVars>>
lookupVars == <<vendorName, vectId, vendor, details>>
searchVars == <<vectResults, dbRows, maybeNames, budgetVal, semanticQ, merged, filtered,
                filterApplied, top>>

Seg(type, id) == [type |-> type, id |-> id, delta |-> ""]
Delta(id, delta) == [type |-> "text-delta", id |-> id, delta |-> delta]
Call(svc, op, arg) == [svc |-> svc, op |-> op, arg |-> arg]

textId == "vendor-response"
Say(s, delta) == Append(s, Delta(textId, delta))

(* the writes a sub-flow makes before it returns *)
EndWrites == <<Seg("text-end", textId), Seg("finish", "")>>
(* faulty variant of FinallyWrites: no finally clause *)
NoFinallyWrites == <<>>
(* the writes of the finally clause of the vendor-mode try *)
FinallyWrites == <<Seg("text-end", textId), Seg("finish", "")>>
(* a sub-flow writes its end and returns inside the try: the finally clause runs *)
Return(s) == s \o EndWrites \o FinallyWrites
(* an exception reaches the catch of the vendor-mode try *)
Caught(s) == Say(s, "Something went wrong while fetching vendors.") \o FinallyWrites

DefaultDenial == "Your message violates our guidelines."
DenialStream(o) ==
    <<Seg("start", ""), Seg("text-start", "moderation-deny"),
      Delta("moderation-deny", IF o.denialMessage # "" THEN o.denialMessage ELSE DefaultDenial),
      Seg("text-end", "moderation-deny"), Seg("finish", "")>>

FallbackStream ==
    <<Seg("start", ""), Seg("text-start", "fallback"),
      Delta("fallback", "Sorry, trouble generating a reply right now."),
      Seg("text-end", "fallback"), Seg("finish", "")>>

(* the stream the general LLM collaborator produces itself *)
LlmStream == <<[type |-> "llm-stream", id |-> "", delta |-> ""]>>

(* the search tool as the handler's steps see it: its outcomes are drawn in *)
(* VectorOutcomes                                                           *)
PineAtRest ==
    /\ pineClient = FALSE
    /\ pineIndexHandle = FALSE
    /\ pineInitAttempted = FALSE
    /\ pineEnv = [sdk |-> "constructor", apiKey |-> TRUE, client |-> "handles"]
    /\ search = <<>>

Init ==
    /\ PineAtRest
    /\ body \in Bodies
    /\ supabase \in BOOLEAN
    /\ pc = "received"
    /\ messages = <<>>
    /\ latestUserText = ""
    /\ http = [status |-> 0, error |-> ""]
    /\ stream = <<>>
    /\ calls = <<>>
    /\ errors = <<>>
    /\ modOutcome = "none"
    /\ flows = <<>>
    /\ vendorName = ""
    /\ vectId = ""
    /\ vendor = EmptyObj
    /\ details = NoDetails
    /\ vectResults = <<>>
    /\ dbRows = <<>>
    /\ maybeNames = <<>>
    /\ budgetVal = NoNumber
    /\ semanticQ = ""
    /\ merged = <<>>
    /\ filtered = <<>>
    /\ filterApplied = FALSE
    /\ top = <<>>
    /\ fnArg = <<>>
    /\ fnRet = <<>>

(* ------------------------------------------------------------------------ *)
(* Body parsing, moderation, routing                                        *)
(* ------------------------------------------------------------------------ *)

NormalizeMessages(b) ==
    IF b.kind = "messages" THEN b.messages
    ELSE <<Msg("user", <<TextPart(b.message)>>)>>

(* (body as any).messages of the body null raises a TypeError outside every *)
(* try: the handler rejects and the framework answers 500 without the       *)
(* handler's error body                                                     *)
UnhandledError == [status |-> 500, error |-> ""]

ParseBody ==
    /\ pc = "received"
    /\ IF body.kind = "invalid"
       THEN /\ http' = [status |-> 400, error |-> "invalid JSON body"]
            /\ pc' = "done"
            /\ UNCHANGED <<messages, latestUserText>>
       ELSE IF body.kind = "null"
       THEN /\ http' = UnhandledError
            /\ pc' = "done"
            /\ UNCHANGED <<messages, latestUserText>>
       ELSE IF body.kind = "empty"
       THEN /\ http' = [status |-> 400, error |-> "no messages provided"]
            /\ pc' = "done"
            /\ UNCHANGED <<messages, latestUserText>>
       ELSE /\ messages' = NormalizeMessages(body)
            /\ latestUserText' = getLatestUserText(NormalizeMessages(body))
            /\ pc' = "moderation"
            /\ UNCHANGED http
    /\ UNCHANGED <<reqVars, stream, calls, errors, modOutcome, flows, lookupVars,
                   searchVars>>

(* faulty variant of ModerationVerdict: the verdict is ignored *)
VerdictIgnored(o) == "continue"
(* faulty variant of ModerationVerdict: fail-closed, an exception denies *)
VerdictFailClosed(o) == IF o.throws \/ o.flagged THEN "deny" ELSE "continue"

(* what the handler does with the moderation outcome o: "deny" or "continue" *)
ModerationVerdict(o) ==
    IF o.throws THEN "continue"
    ELSE IF o.flagged THEN "deny"
    ELSE "continue"

Moderation ==
    /\ pc = "moderation"
    /\ IF latestUserText = ""
       THEN /\ modOutcome' = "skipped"
            /\ pc' = "route"
            /\ UNCHANGED <<calls, errors, stream, http>>
       ELSE \E o \in ModerationOutcomes :
            /\ calls' = Append(calls, Call("moderation", "isContentFlagged", latestUserText))
            /\ errors' = IF o.throws THEN Append(errors, "moderation") ELSE errors
            /\ modOutcome' = IF o.throws THEN "threw" ELSE IF o.flagged THEN "flagged" ELSE "clean"
            /\ IF ModerationVerdict(o) = "deny"
               THEN /\ stream' = DenialStream(o)
                    /\ http' = [status |-> 200, error |-> ""]
                    /\ pc' = "done"
               ELSE /\ pc' = "route"
                    /\ UNCHANGED <<stream, http>>
    /\ UNCHANGED <<reqVars, messages, latestUserText, flows, lookupVars, searchVars>>

Route ==
    /\ pc = "route"
    /\ IF isVendorQuery(latestUserText)
       THEN /\ stream' = <<Seg("start", ""), Seg("text-start", textId)>>
            /\ http' = [status |-> 200, error |-> ""]
            /\ pc' = "dispatch"
       ELSE /\ pc' = "general"
            /\ UNCHANGED <<stream, http>>
    /\ UNCHANGED <<reqVars, messages, latestUserText, calls, errors, modOutcome, flows,
                   lookupVars, searchVars>>

GeneralLLM ==
    /\ pc = "general"
    /\ \E o \in {"streams", "throws"} :
        /\ calls' = Append(calls, Call("llm", "streamText", latestUserText))
        /\ errors' = IF o = "throws" THEN Append(errors, "llm") ELSE errors
        /\ stream' = IF o = "throws" THEN FallbackStream ELSE LlmStream
    /\ http' = [status |-> 200, error |-> ""]
    /\ pc' = "done"
    /\ UNCHANGED <<reqVars, messages, latestUserText, modOutcome, flows, lookupVars,
                   searchVars>>

(* ------------------------------------------------------------------------ *)
(* Vendor mode: dispatch                                                    *)
(* ------------------------------------------------------------------------ *)

composedQuery == Trim(latestUserText)

(* Array.prototype.join(" ") *)
JoinSpace(parts) ==
    With(parts, LAMBDA v :
        LET join[i \in 0..Len(v)] ==
                IF i = 0 THEN "" ELSE join[i - 1] \o (IF i > 1 THEN " " ELSE "") \o v[i]
        IN  join[Len(v)])

(* "budget " followed by the parsed number is written "budget <n>" *)
semanticQuery(q) ==
    With(parseCategory(q), LAMBDA categoryVal :
        JoinSpace(<<q>> \o (IF categoryVal # "" THEN <<categoryVal>> ELSE <<>>)
                       \o (IF Truthy(parseBudget(q)) THEN <<"budget <n>">> ELSE <<>>)))

(* faulty variant of SubFlow: more-details is tested before guide *)
SubFlowDetailsFirst(q) ==
    IF isMoreDetailsQuery(q) THEN "details"
    ELSE IF isGuideQuery(q) THEN "guide"
    ELSE IF isReviewsQuery(q) THEN "reviews"
    ELSE "search"

(* the chain of if-blocks of the vendor-mode body: the first predicate that *)
(* holds selects the sub-flow, and every sub-flow returns                   *)
SubFlow(q) ==
    IF isGuideQuery(q) THEN "guide"
    ELSE IF isMoreDetailsQuery(q) THEN "details"
    ELSE IF isReviewsQuery(q) THEN "reviews"
    ELSE "search"

Dispatch ==
    /\ pc = "dispatch"
    /\ \E q \in {composedQuery} : \E flow \in {SubFlow(q)} :
        /\ flows' = Append(flows, flow)
        /\ IF flow = "guide"
           THEN /\ pc' = "guide_queries"
                /\ UNCHANGED <<stream, vendorName, budgetVal, semanticQ>>
           ELSE IF flow = "details"
           THEN \E nm \in {extractVendorNameFromMoreDetails(q)} :
                /\ vendorName' = nm
                /\ IF nm = ""
                   THEN /\ stream' = Return(Say(stream, "Which vendor? Say: More details on <vendor name>."))
                        /\ pc' = "done"
                   ELSE /\ pc' = "details_vector"
                        /\ UNCHANGED stream
                /\ UNCHANGED <<budgetVal, semanticQ>>
           ELSE IF flow = "reviews"
           THEN \E nm \in {ReviewsVendorName(q, messages)} :
                /\ vendorName' = nm
                /\ IF nm = ""
                   THEN /\ stream' = Return(Say(stream, "Which vendor? Say: Reviews for <vendor name>."))
                        /\ pc' = "done"
                   ELSE /\ pc' = "reviews_lookup"
                        /\ UNCHANGED stream
                /\ UNCHANGED <<budgetVal, semanticQ>>
           ELSE /\ budgetVal' = parseBudget(q)
                /\ IF ~looksSpecific(q)
                   THEN /\ stream' = Return(Say(stream, "Okay, any category, budget, neighbourhood, or style to narrow it down?"))
                        /\ pc' = "done"
                        /\ UNCHANGED semanticQ
                   ELSE /\ semanticQ' = semanticQuery(q)
                        /\ pc' = "search_vector"
                        /\ UNCHANGED stream
                /\ UNCHANGED vendorName
    /\ UNCHANGED <<reqVars, messages, latestUserText, http, calls, errors, modOutcome,
                   vectId, vendor, details, vectResults, dbRows, maybeNames, merged,
                   filtered, filterApplied, top>>

(* ------------------------------------------------------------------------ *)
(* Guide                                                                    *)
(* ------------------------------------------------------------------------ *)

GuideApology == "Couldn't assemble the guide right now."

GuideQueries ==
    /\ pc = "guide_queries"
    /\ IF ~supabase
       THEN /\ pc' = "guide_llm"
            /\ UNCHANGED <<calls, errors, stream>>
       ELSE \E o \in {"data", "rejects"} : \E cat \in {parseCategory(composedQuery)} :
            /\ calls' = Append(calls, Call("relational", "guideBuckets",
                                           IF cat # "" THEN cat ELSE "caterer"))
            /\ errors' = IF o = "rejects" THEN Append(errors, "relational") ELSE errors
            /\ IF o = "rejects"
               THEN /\ stream' = Return(Say(stream, GuideApology))
                    /\ pc' = "done"
               ELSE /\ pc' = "guide_llm"
                    /\ UNCHANGED stream
    /\ UNCHANGED <<reqVars, messages, latestUserText, http, modOutcome, flows, lookupVars,
                   searchVars>>

(* calls' and errors' of one callOpenAIChat *)
TextGen(o, what) ==
    /\ calls' = IF o = "nokey" THEN calls ELSE Append(calls, Call("textgen", "callOpenAIChat", what))
    /\ errors' = IF o = "fails" THEN Append(errors, "textgen") ELSE errors

GuideLLM ==
    /\ pc = "guide_llm"
    /\ \E o \in TextGenOutcomes :
        /\ TextGen(o, "guide")
        /\ stream' = Return(Say(stream,
                IF o = "text" THEN "<guide text>"
                ELSE "___GUIDE_JSON___<guide json>___END_GUIDE_JSON___<fallback guide>"))
    /\ pc' = "done"
    /\ UNCHANGED <<reqVars, messages, latestUserText, http, modOutcome, flows, lookupVars,
                   searchVars>>

(* ------------------------------------------------------------------------ *)
(* More details                                                             *)
(* ------------------------------------------------------------------------ *)

VectorErrors(o) ==
    IF o.embedding = "throws" \/ o.query = "throws" THEN Append(errors, "vector") ELSE errors

(* vectCandidates.map((v) => v.vendor_id || v._id || v.id).find(Boolean) || null *)
FirstCandidateId(cands) ==
    IF \E i \in 1..Len(cands) : FirstTruthy(cands[i], idKeys) # 0
    THEN LET i == CHOOSE i \in 1..Len(cands) :
                    /\ FirstTruthy(cands[i], idKeys) # 0
                    /\ \A h \in 1..(i - 1) : FirstTruthy(cands[h], idKeys) = 0
         IN  cands[i][idKeys[FirstTruthy(cands[i], idKeys)]]
    ELSE ""

DetailsVector ==
    /\ pc = "details_vector"
    /\ \E o \in VectorOutcomes :
        /\ calls' = Append(calls, Call("vector", "execute", vendorName))
        /\ errors' = VectorErrors(o)
        /\ \E cands \in {normalizeVectorResults(execute(vendorName, o))} :
              vectId' = FirstCandidateId(cands)
    /\ pc' = "details_id"
    /\ UNCHANGED <<reqVars, messages, latestUserText, http, stream, modOutcome, flows,
                   vendorName, vendor, details, searchVars>>

(* where the lookup chain goes after a tier that raised an error: the catch *)
(* of the chain ends it                                                     *)
AfterTierError == "details_web"

(* faulty variant of NoVendorRecord: the web fallback is taken after every lookup *)
AlwaysWeb(d) == TRUE

(* !details || !details.vendor *)
NoVendorRecord(d) == ~d.found

DetailsById ==
    /\ pc = "details_id"
    /\ IF vectId = ""
       THEN /\ pc' = IF supabase THEN "details_name" ELSE "details_web"
            /\ UNCHANGED <<calls, errors, details>>
       ELSE \E o \in DetailsOutcomes :
            /\ calls' = Append(calls, Call("relational", "getVendorDetails", vectId))
            /\ errors' = IF o = "throws" THEN Append(errors, "relational") ELSE errors
            /\ details' = getVendorDetails(vectId, o)
            /\ pc' = IF o = "throws" THEN AfterTierError
                     ELSE IF ~NoVendorRecord(getVendorDetails(vectId, o)) THEN "details_llm"
                     ELSE IF supabase THEN "details_name" ELSE "details_web"
    /\ UNCHANGED <<reqVars, messages, latestUserText, http, stream, modOutcome, flows,
                   vendorName, vectId, vendor, searchVars>>

DetailsByName ==
    /\ pc = "details_name"
    /\ \E o \in NameLookupOutcomes(vendorName) :
        /\ calls' = Append(calls, Call("relational", "byName", vendorName))
        /\ errors' = IF o.throws THEN Append(errors, "relational") ELSE errors
        /\ vendor' = o.data
        /\ pc' = IF o.throws THEN AfterTierError
                 ELSE IF Has(o.data, "id") THEN "details_found" ELSE "details_web"
    /\ UNCHANGED <<reqVars, messages, latestUserText, http, stream, modOutcome, flows,
                   vendorName, vectId, details, searchVars>>

DetailsByFound ==
    /\ pc = "details_found"
    /\ \E o \in DetailsOutcomes :
        /\ calls' = Append(calls, Call("relational", "getVendorDetails", vendor.id))
        /\ errors' = IF o = "throws" THEN Append(errors, "relational") ELSE errors
        /\ details' = getVendorDetails(vendor.id, o)
        /\ pc' = IF o # "throws" /\ ~NoVendorRecord(getVendorDetails(vendor.id, o))
                 THEN "details_llm" ELSE "details_web"
    /\ UNCHANGED <<reqVars, messages, latestUserText, http, stream, modOutcome, flows,
                   vendorName, vectId, vendor, searchVars>>

WebSummary == "Couldn't find this vendor in the internal DB. Web summary: <web snippets>"

DetailsWeb ==
    /\ pc = "details_web"
    /\ \E o \in WebOutcomes :
        /\ calls' = Append(calls, Call("web", "webSearch", vendorName))
        /\ errors' = IF o \in {"rejects", "throws"} THEN Append(errors, "web") ELSE errors
        /\ stream' = IF o = "throws" THEN Caught(stream)
                     ELSE IF o = "results" THEN Return(Say(stream, WebSummary))
                     ELSE Return(Say(stream, "I couldn't find details for <vendorName>."))
    /\ pc' = "done"
    /\ UNCHANGED <<reqVars, messages, latestUserText, http, modOutcome, flows, lookupVars,
                   searchVars>>

DetailsLLM ==
    /\ pc = "details_llm"
    /\ \E o \in TextGenOutcomes :
        /\ TextGen(o, "details")
        /\ stream' = Return(Say(Say(stream,
                IF o = "text" THEN "<vendor analysis>" ELSE "Could not generate vendor analysis."),
                "__VENDOR_DETAILS_JSON__<fact block>__END_VENDOR_DETAILS_JSON__"))
    /\ pc' = "done"
    /\ UNCHANGED <<reqVars, messages, latestUserText, http, modOutcome, flows, lookupVars,
                   searchVars>>

(* ------------------------------------------------------------------------ *)
(* Reviews                                                                  *)
(* ------------------------------------------------------------------------ *)

NoVendorMessage == "Could not find vendor matching <vendorName>."

ReviewsLookup ==
    /\ pc = "reviews_lookup"
    /\ IF ~supabase
       THEN /\ stream' = Return(Say(stream, NoVendorMessage))
            /\ pc' = "done"
            /\ UNCHANGED <<calls, errors, vendor>>
       ELSE \E o \in NameLookupOutcomes(vendorName) :
            /\ calls' = Append(calls, Call("relational", "byName", vendorName))
            /\ errors' = IF o.throws THEN Append(errors, "relational") ELSE errors
            /\ vendor' = o.data
            /\ IF Has(o.data, "id")
               THEN /\ pc' = "reviews_details"
                    /\ UNCHANGED stream
               ELSE /\ stream' = Return(Say(stream, NoVendorMessage))
                    /\ pc' = "done"
    /\ UNCHANGED <<reqVars, messages, latestUserText, http, modOutcome, flows, vendorName,
                   vectId, details, searchVars>>

ReviewsDetails ==
    /\ pc = "reviews_details"
    /\ \E o \in DetailsOutcomes :
        /\ calls' = Append(calls, Call("relational", "getVendorDetails", vendor.id))
        /\ errors' = IF o = "throws" THEN Append(errors, "relational") ELSE errors
        /\ details' = getVendorDetails(vendor.id, o)
        /\ IF Len(getVendorDetails(vendor.id, o).top_reviews) = 0
           THEN /\ stream' = Return(Say(stream, "No reviews available for <vendor.name>."))
                /\ pc' = "done"
           ELSE /\ pc' = "reviews_llm"
                /\ UNCHANGED stream
    /\ UNCHANGED <<reqVars, messages, latestUserText, http, modOutcome, flows, vendorName,
                   vectId, vendor, searchVars>>

ReviewsLLM ==
    /\ pc = "reviews_llm"
    /\ \E o \in TextGenOutcomes :
        /\ TextGen(o, "reviews")
        /\ stream' = Return(Say(stream,
                IF o = "text" THEN "<reviews summary>" ELSE "Could not summarise reviews."))
    /\ pc' = "done"
    /\ UNCHANGED <<reqVars, messages, latestUserText, http, modOutcome, flows, lookupVars,
                   searchVars>>

(* ------------------------------------------------------------------------ *)
(* Generic semantic search                                                  *)
(* ------------------------------------------------------------------------ *)

MaybeNamesMax == 6
(* vectResults.slice(0, 6).map((v) => v.name || v.title || v.vendor_name).filter(Boolean) *)
MaybeNames(vr) == SeqFilter(NonEmptyStr, SeqMap(CandidateName, Slice(vr, MaybeNamesMax)))

(* faulty variant of Dedupe: every row is kept *)
KeepAllRows(rows) == rows

(* dbRows.filter: the first row of every identifier *)
Dedupe(rows) ==
    LET first(j) == \A h \in 1..(j - 1) : rows[h].id # rows[j].id
        F[j \in 0..Len(rows)] ==
            IF j = 0 THEN <<>> ELSE IF first(j) THEN Append(F[j - 1], rows[j]) ELSE F[j - 1]
    IN  F[Len(rows)]

(* the name-based fallback runs *)
NeedsNameFallback(rows, vr) == supabase /\ Len(rows) = 0 /\ Len(vr) > 0

(* position after the ID lookup left rows, with candidates vr *)
AfterIdLookup(rows, vr) ==
    IF NeedsNameFallback(rows, vr) /\ MaybeNames(vr) # <<>> THEN "search_names" ELSE "compose"

SearchVector ==
    /\ pc = "search_vector"
    /\ \E o \in VectorOutcomes :
        \E vr \in {normalizeVectorResults(execute(semanticQ, o))} :
            /\ calls' = Append(calls, Call("vector", "execute", semanticQ))
            /\ errors' = VectorErrors(o)
            /\ vectResults' = vr
            /\ pc' = IF supabase /\ Len(VendorIds(vr)) > 0 THEN "search_ids"
                     ELSE AfterIdLookup(<<>>, vr)
            /\ maybeNames' = IF pc' = "search_names" THEN MaybeNames(vr) ELSE <<>>
    /\ UNCHANGED <<reqVars, messages, latestUserText, http, stream, modOutcome, flows,
                   lookupVars, dbRows, budgetVal, semanticQ, merged, filtered,
                   filterApplied, top>>

SearchIds ==
    /\ pc = "search_ids"
    /\ \E o \in IdLookupOutcomes(VendorIds(vectResults)) :
        /\ calls' = Append(calls, Call("relational", "byIds", ""))
        /\ errors' = IF o.throws THEN Append(errors, "relational") ELSE errors
        /\ dbRows' = o.data
        /\ pc' = AfterIdLookup(o.data, vectResults)
        /\ maybeNames' = IF pc' = "search_names" THEN MaybeNames(vectResults) ELSE <<>>
    /\ UNCHANGED <<reqVars, messages, latestUserText, http, stream, modOutcome, flows,
                   lookupVars, vectResults, budgetVal, semanticQ, merged, filtered,
                   filterApplied, top>>

(* one iteration of the loop over maybeNames; the last one ends with the dedupe *)
SearchName ==
    /\ pc = "search_names"
    /\ \E o \in NameRowsOutcomes(Head(maybeNames)) :
        /\ calls' = Append(calls, Call("relational", "byNameRows", Head(maybeNames)))
        /\ errors' = IF o.throws THEN Append(errors, "relational") ELSE errors
        /\ dbRows' = IF Len(maybeNames) = 1 THEN Dedupe(dbRows \o o.data) ELSE dbRows \o o.data
    /\ maybeNames' = Tail(maybeNames)
    /\ pc' = IF Len(maybeNames) = 1 THEN "compose" ELSE "search_names"
    /\ UNCHANGED <<reqVars, messages, latestUserText, http, stream, modOutcome, flows,
                   lookupVars, vectResults, budgetVal, semanticQ, merged, filtered,
                   filterApplied, top>>

HitsJson == "__VENDOR_HITS_JSON__<structured>__END_VENDOR_HITS_JSON__"

Compose ==
    /\ pc = "compose"
    /\ merged' = Merge(vectResults, dbRows)
    /\ filterApplied' = Truthy(budgetVal)
    /\ filtered' = IF Truthy(budgetVal) THEN BudgetFilter(merged', budgetVal) ELSE <<>>
    /\ top' = Shortlist(merged', filtered', budgetVal)
    /\ stream' = Return(Say(Say(stream, "<hits prose>"), HitsJson))
    /\ pc' = "done"
    /\ UNCHANGED <<reqVars, messages, latestUserText, http, calls, errors, modOutcome, flows,
                   lookupVars, vectResults, dbRows, maybeNames, budgetVal, semanticQ>>

(* ------------------------------------------------------------------------ *)
(* Specification                                                            *)
(* ------------------------------------------------------------------------ *)

Next ==
    \/ ParseBody
    \/ Moderation
    \/ Route
    \/ GeneralLLM
    \/ Dispatch
    \/ GuideQueries
    \/ GuideLLM
    \/ DetailsVector
    \/ DetailsById
    \/ DetailsByName
    \/ DetailsByFound
    \/ DetailsWeb
    \/ DetailsLLM
    \/ ReviewsLookup
    \/ ReviewsDetails
    \/ ReviewsLLM
    \/ SearchVector
    \/ SearchIds
    \/ SearchName
    \/ Compose

Spec == Init /\ [][Next]_vars

(* every awaited collaborator call settles, so the handler always takes its *)
(* next step                                                                *)
FairSpec == Spec /\ WF_vars(Next)

(* ------------------------------------------------------------------------ *)
(* The functions of the handler on inputs of their own                      *)
(* ------------------------------------------------------------------------ *)

MaxCandidates == 7

(* the i-th candidate of a normalized vector result, cheap or dear *)
Candidate(i, dear) ==
    [_id |-> "v" \o ToString(i), name |-> "Hall " \o ToString(i), _score |-> 100 - i,
     price_min |-> IF dear THEN 900000 ELSE 20000]

(* normalized vector results of up to MaxCandidates candidates *)
CandidateLists ==
    UNION {{<<>> \o [i \in 1..n |-> Candidate(i, i \in D)] : D \in SUBSET (1..n)} :
              n \in 0..MaxCandidates}

(* elements of a candidate array: a match, an empty object, null *)
MaxItems == 2
ArrayItems == {matchA, EmptyObj, NullItem}
Arrays == UNION {[1..n -> ArrayItems] : n \in 0..MaxItems}

(* the keys under which the documented response shapes carry the candidates; *)
(* "$array" is the array at top level                                        *)
ShapeKeys == {"$array", "vendors", "results", "items", "matches", "hits", "data.matches",
              "metadata.matches"}

(* inputs of the normalizer: null (or another falsy value), an object or a  *)
(* primitive without recognized key, objects whose recognized keys hold      *)
(* non-arrays, and one array under one key                                   *)
NormalizerInputs ==
    {NullResult, Result(EmptyObj), ObjectWith(EmptyObj, {"matches", "hits", "results"}),
     ObjectWith("results" :> <<matchA>>, {"matches", "hits", "data"})}
    \cup {Result(k :> (<<>> \o a)) : k \in ShapeKeys, a \in Arrays}

ShortlistTexts ==
    {"caterers in bandra", "caterers in bandra under 50000", "caterers in bandra under 10000"}

(* the handler in front of the merge: a generic search without relational *)
(* client whose vector search returned the candidates                     *)
ComposeInit ==
    /\ PineAtRest
    /\ pc = "compose"
    /\ \E t \in ShortlistTexts :
        /\ body = [kind |-> "message", message |-> t]
        /\ messages = NormalizeMessages(body)
        /\ latestUserText = t
        /\ budgetVal = parseBudget(t)
        /\ semanticQ = semanticQuery(t)
        /\ calls = <<Call("moderation", "isContentFlagged", t),
                     Call("vector", "execute", semanticQ)>>
    /\ supabase = FALSE
    /\ http = [status |-> 200, error |-> ""]
    /\ stream = <<Seg("start", ""), Seg("text-start", textId)>>
    /\ errors = <<>>
    /\ modOutcome = "clean"
    /\ flows = <<"search">>
    /\ vendorName = ""
    /\ vectId = ""
    /\ vendor = EmptyObj
    /\ details = NoDetails
    /\ vectResults \in CandidateLists
    /\ dbRows = <<>>
    /\ maybeNames = <<>>
    /\ merged = <<>>
    /\ filtered = <<>>
    /\ filterApplied = FALSE
    /\ top = <<>>
    /\ fnArg = <<>>
    /\ fnRet = <<>>

(* no request is being handled *)
NoRequest ==
    /\ body = [kind |-> "empty"]
    /\ supabase = FALSE
    /\ messages = <<>>
    /\ latestUserText = ""
    /\ http = [status |-> 0, error |-> ""]
    /\ stream = <<>>
    /\ calls = <<>>
    /\ errors = <<>>
    /\ modOutcome = "none"
    /\ flows = <<>>
    /\ vendorName = ""
    /\ vectId = ""
    /\ vendor = EmptyObj
    /\ details = NoDetails
    /\ vectResults = <<>>
    /\ dbRows = <<>>
    /\ maybeNames = <<>>
    /\ budgetVal = NoNumber
    /\ semanticQ = ""
    /\ merged = <<>>
    /\ filtered = <<>>
    /\ filterApplied = FALSE
    /\ top = <<>>

handlerVars == <<body, supabase, messages, latestUserText, http, stream, calls, errors,
                 modOutcome, flows, lookupVars, searchVars>>

(* the function fn is about to be applied to one of the inputs *)
CallInit(fn, inputs) == pc = fn /\ fnArg \in inputs /\ fnRet = <<>> /\ NoRequest /\ PineAtRest

(* position after the function fn returned *)
Returns(fn) == fn \o " returned"

CallNormalize ==
    /\ pc = "normalizeVectorResults"
    /\ fnRet' = Catch(TryNormalize(fnArg))
    /\ pc' = Returns("normalizeVectorResults")
    /\ UNCHANGED <<handlerVars, fnArg, pineVars>>

GuideTexts ==
    {"best photographers in mumbai", "top venue in bandra", "best caterers in mumbai",
     "Top Venues in Powai", "recommend a decorator", "guide to makeup artists",
     "best vendors near me", "find me a dj", "caterers in bandra", "the topmost caterer",
     "who should i book as caterer", "best wedding ideas", "hello there", ""}

CallIsGuideQuery ==
    /\ pc = "isGuideQuery"
    /\ fnRet' = isGuideQuery(fnArg)
    /\ pc' = Returns("isGuideQuery")
    /\ UNCHANGED <<handlerVars, fnArg, pineVars>>

BudgetTexts ==
    {"5 lakh", "₹50000", "hello", "", "2 large venues", "0.000008 lakh", "1.2.3 lakh",
     "under 1,50,000 rs", "2.5 lacs", "3 Lakhs", "7l", "5 lac", "budget 40000 inr",
     "10 rupees", "0 lakh", "5.", "top 5 caterers under 2 lakh", "1.5", "12 L", "8 ₹",
     "45,000", "6   lakhs only", "9.. lakh", "venue for 300 guests"}

CallParseBudget ==
    /\ pc = "parseBudget"
    /\ fnRet' = parseBudget(fnArg)
    /\ pc' = Returns("parseBudget")
    /\ UNCHANGED <<handlerVars, fnArg, pineVars>>

(* outcomes of one search, with an index answer that holds a null match *)
ExecuteOutcomes ==
    VectorOutcomes
    \cup {[embedding |-> "missing", init |-> FALSE, query |-> "ok", raw |-> <<>>],
          [embedding |-> "ok", init |-> TRUE, query |-> "ok", raw |-> <<matchA, NullItem>>]}

ExecuteInputs ==
    [query : {"", "  ", "caterers in Mumbai"}, o : ExecuteOutcomes]

CallExecute ==
    /\ pc = "execute"
    /\ fnRet' = [out |-> execute(fnArg.query, fnArg.o),
                 steps |-> ExecuteSteps(fnArg.query, fnArg.o)]
    /\ pc' = Returns("execute")
    /\ UNCHANGED <<handlerVars, fnArg, pineVars>>

(* ---- the vendor payload of the generic search, written and read back ---- *)

startToken == "__VENDOR_HITS_JSON__"
endToken == "__END_VENDOR_HITS_JSON__"

(* Array.prototype.join(sep) *)
JoinWith(parts, sep) ==
    LET join[i \in 0..Len(parts)] ==
            IF i = 0 THEN "" ELSE join[i - 1] \o (IF i > 1 THEN sep ELSE "") \o parts[i]
    IN  join[Len(parts)]

(* JSON.stringify of a string: quotes and backslashes are escaped *)
JsonString(s) ==
    LET esc[i \in 0..Len(s)] ==
            IF i = 0 THEN ""
            ELSE esc[i - 1] \o (IF Ch(s, i) \in {"\"", "\\"} THEN "\\" ELSE "") \o Ch(s, i)
    IN  "\"" \o esc[Len(s)] \o "\""

(* top.map((v) => ({ id, name, category, ... })) for entries with id and name *)
Structured(list) == <<>> \o [i \in 1..Len(list) |-> [id |-> list[i].id, name |-> list[i].name]]

(* JSON.stringify(structured); the fields an entry lacks are written null *)
StringifyHit(h) ==
    "{\"id\":" \o JsonString(h.id) \o ",\"name\":" \o JsonString(h.name)
    \o ",\"category\":null,\"city\":null,\"price_min\":null,\"price_max\":null"
    \o ",\"rating\":null,\"contact\":null,\"images\":null,\"short_description\":null}"
StringifyHits(hits) ==
    "[" \o JoinWith(<<>> \o [i \in 1..Len(hits) |-> StringifyHit(hits[i])], ",") \o "]"

(* the prose of the generic search; the dash of the source is written "-" *)
Conversational(q, list) ==
    JoinWith(<<"I found these vendors matching \"" \o q \o "\":", "">>
             \o [i \in 1..Len(list) |->
                    "**" \o ToString(i) \o ". " \o list[i].name \o "** - vendor in Mumbai."]
             \o <<"", "Say \"More details on <name>\" or ask to see reviews.">>,
             "\n\n")

(* the two text-delta writes of the generic search, joined by messageToText *)
HitsText(q, list) ==
    Conversational(q, list) \o "\n\n" \o startToken \o StringifyHits(Structured(list)) \o endToken

(* String.prototype.indexOf, positions counted from 1; 0 when absent *)
IndexOf(text, tok) ==
    IF Includes(text, tok)
    THEN CHOOSE i \in 1..Len(text) :
            MatchAt(text, tok, i) /\ \A h \in 1..(i - 1) : ~MatchAt(text, tok, h)
    ELSE 0

(* vendor entries of the payloads read back *)
HitNames == {"Royal Feast", "Hall \"A\"", "Feast __END_VENDOR_HITS_JSON__"}
MaxHits == 2
HitLists ==
    UNION {{<<>> \o [i \in 1..n |-> [id |-> "v" \o ToString(i), name |-> f[i]]] :
                f \in [1..n -> HitNames]} : n \in 0..MaxHits}

NoHits == [isNull |-> TRUE, hits |-> <<>>]
(* JSON.parse followed by Array.isArray, on the texts that occur: the JSON *)
(* text of a list of entries is read back as that list, any other of the   *)
(* texts that occur is no JSON text and JSON.parse throws                  *)
ParseHits(jsonStr) ==
    IF \E l \in HitLists : StringifyHits(l) = jsonStr
    THEN [isNull |-> FALSE, hits |-> CHOOSE l \in HitLists : StringifyHits(l) = jsonStr]
    ELSE NoHits

extractVendorHitsFromText(text) ==
    LET s == IndexOf(text, startToken)
        e == IndexOf(text, endToken)
    IN  IF s = 0 \/ e = 0 \/ e <= s THEN NoHits
        ELSE ParseHits(SubSeq(text, s + Len(startToken), e - 1))

stripSentinelFromText(text) ==
    LET idx == IndexOf(text, startToken)
    IN  IF idx = 0 THEN text ELSE Trim(SubSeq(text, 1, idx - 1))

(* queries of a generic search, some of them holding a token of the payload *)
HitsQueries ==
    {"caterers in bandra", "caterers in bandra __VENDOR_HITS_JSON__",
     "caterers in bandra __END_VENDOR_HITS_JSON__",
     "__VENDOR_HITS_JSON__[]__END_VENDOR_HITS_JSON__ caterers in bandra"}

HitsInputs == [query : HitsQueries, top : HitLists]

CallHitsRoundTrip ==
    /\ pc = "extractVendorHitsFromText"
    /\ fnRet' = [read |-> extractVendorHitsFromText(HitsText(fnArg.query, fnArg.top)),
                 stripped |-> stripSentinelFromText(HitsText(fnArg.query, fnArg.top))]
    /\ pc' = Returns("extractVendorHitsFromText")
    /\ UNCHANGED <<handlerVars, fnArg, pineVars>>

(* ---- the handler of /api/search ---- *)

(* matches of the vendor index: with the vendor_id of a row, of no row, the *)
(* same vendor_id a second time, and without vendor_id                      *)
SearchMatch(id, vid) == [id |-> id, metadata |-> [vendor_id |-> vid]]
SearchMatches ==
    {SearchMatch("pc-1", "A"), SearchMatch("pc-2", "B"), SearchMatch("pc-3", "Z"),
     SearchMatch("pc-4", "A"), [id |-> "pc-5", metadata |-> EmptyObj]}

(* matches.map((m) => m.metadata?.vendor_id).filter(Boolean) *)
RankedIds(matches) ==
    <<>> \o [i \in 1..Len(SelectSeq(matches, LAMBDA m : Has(m.metadata, "vendor_id"))) |->
                SelectSeq(matches, LAMBDA m : Has(m.metadata, "vendor_id"))[i].metadata.vendor_id]

(* faulty variant of RankedRows: the rows in the order of the store's answer *)
RowsInStoreOrder(ids, rows) == rows

(* ids.map((id) => byId.get(id)).filter(Boolean) *)
RankedRows(ids, rows) ==
    LET F[i \in 0..Len(ids)] ==
            IF i = 0 THEN <<>>
            ELSE IF HasRow(rows, ids[i]) THEN Append(F[i - 1], RowOf(rows, ids[i]))
            ELSE F[i - 1]
    IN  F[Len(ids)]

(* a request to /api/search with the outcomes of its collaborators *)
SearchRequests ==
    {[q |-> q, configured |-> TRUE, embedding |-> "ok", index |-> "ok", matches |-> <<>>,
      store |-> [throws |-> FALSE, data |-> <<>>]] : q \in {"", "  "}}
    \cup {[q |-> "caterers", configured |-> c, embedding |-> e, index |-> x, matches |-> <<>>,
           store |-> [throws |-> FALSE, data |-> <<>>]] :
             c \in BOOLEAN, e \in {"ok", "throws"}, x \in {"ok", "throws"}}
    \cup UNION {{[q |-> "caterers", configured |-> TRUE, embedding |-> "ok", index |-> "ok",
                  matches |-> ms, store |-> o] : o \in IdLookupOutcomes(RankedIds(ms))} :
                    ms \in SeqsUpTo(SearchMatches, MaxMatches)}

SearchError(status, called) ==
    [status |-> status, results |-> <<>>, matches |-> <<>>, called |-> called]

(* POST of /api/search: the status, the JSON body and the collaborators called *)
SearchRoute(r) ==
    IF Trim(r.q) = "" THEN SearchError(400, <<>>)
    ELSE IF ~r.configured THEN SearchError(500, <<>>)
    ELSE IF r.embedding = "throws" THEN SearchError(500, <<"embeddings">>)
    ELSE IF r.index = "throws" THEN SearchError(500, <<"embeddings", "index">>)
    ELSE IF Len(RankedIds(r.matches)) = 0
    THEN [status |-> 200, results |-> <<>>, matches |-> r.matches,
          called |-> <<"embeddings", "index">>]
    ELSE IF r.store.throws THEN SearchError(500, <<"embeddings", "index", "store">>)
    ELSE [status |-> 200, results |-> RankedRows(RankedIds(r.matches), r.store.data),
          matches |-> r.matches, called |-> <<"embeddings", "index", "store">>]

CallSearchRoute ==
    /\ pc = "searchRoute"
    /\ fnRet' = SearchRoute(fnArg)
    /\ pc' = Returns("searchRoute")
    /\ UNCHANGED <<handlerVars, fnArg, pineVars>>

FunctionInit ==
    \/ ComposeInit
    \/ CallInit("searchRoute", SearchRequests)
    \/ CallInit("extractVendorHitsFromText", HitsInputs)
    \/ CallInit("execute", ExecuteInputs)
    \/ CallInit("normalizeVectorResults", NormalizerInputs)
    \/ CallInit("isGuideQuery", GuideTexts)
    \/ CallInit("parseBudget", BudgetTexts)

FunctionNext ==
    \/ Compose
    \/ CallSearchRoute
    \/ CallHitsRoundTrip
    \/ CallExecute
    \/ CallNormalize
    \/ CallIsGuideQuery
    \/ CallParseBudget

FunctionSpec == FunctionInit /\ [][FunctionNext]_vars

(* ------------------------------------------------------------------------ *)
(* The relational lookups of a generic search with many candidates          *)
(* ------------------------------------------------------------------------ *)

(* names of the candidates, as the index stores them: parts of the names of *)
(* the vendors table, and one name the table does not hold                  *)
candidateNames == <<"Spice", "Royal Feast", "Hall 3", "Caterers", "Royal", "Green Leaf",
                    "Spice Route">>

(* the i-th candidate; a known candidate carries the identifier of a row *)
NamedCandidate(i, known) ==
    [_id |-> IF known THEN "A" ELSE "v" \o ToString(i), name |-> candidateNames[i],
     _score |-> 100 - i]

(* normalized vector results: the first n candidates, the first one known or not *)
NamedLists ==
    {<<>> \o [i \in 1..n |-> NamedCandidate(i, known /\ i = 1)] :
        n \in 0..Len(candidateNames), known \in BOOLEAN}

(* the handler after the vector search of a generic search returned *)
LookupInit ==
    /\ PineAtRest
    /\ body = [kind |-> "message", message |-> "caterers in bandra"]
    /\ messages = NormalizeMessages(body)
    /\ latestUserText = "caterers in bandra"
    /\ budgetVal = parseBudget(latestUserText)
    /\ semanticQ = semanticQuery(latestUserText)
    /\ calls = <<Call("moderation", "isContentFlagged", latestUserText),
                 Call("vector", "execute", semanticQ)>>
    /\ supabase \in BOOLEAN
    /\ http = [status |-> 200, error |-> ""]
    /\ stream = <<Seg("start", ""), Seg("text-start", textId)>>
    /\ errors = <<>>
    /\ modOutcome = "clean"
    /\ flows = <<"search">>
    /\ vendorName = ""
    /\ vectId = ""
    /\ vendor = EmptyObj
    /\ details = NoDetails
    /\ vectResults \in NamedLists
    /\ dbRows = <<>>
    /\ pc = IF supabase /\ Len(VendorIds(vectResults)) > 0 THEN "search_ids"
            ELSE AfterIdLookup(<<>>, vectResults)
    /\ maybeNames = IF pc = "search_names" THEN MaybeNames(vectResults) ELSE <<>>
    /\ merged = <<>>
    /\ filtered = <<>>
    /\ filterApplied = FALSE
    /\ top = <<>>
    /\ fnArg = <<>>
    /\ fnRet = <<>>

LookupNext ==
    \/ SearchIds
    \/ SearchName
    \/ Compose

LookupSpec == LookupInit /\ [][LookupNext]_vars

(* ------------------------------------------------------------------------ *)
(* The vector search tool: concurrent searches of one process               *)
(* ------------------------------------------------------------------------ *)

NumSearches == 2
Searches == 1..NumSearches

(* the SDK class has an asynchronous init(), or is ready once constructed *)
SdkShapes == {"init", "constructor"}

(* what the construction paths leave behind: client and index handle, a *)
(* client without index handle, or nothing (every path threw)           *)
ClientOutcomes == {"handles", "client only", "none"}

SearchStart == [pc |-> "start", embedding |-> FALSE, handles |-> FALSE, query |-> "none",
                out |-> "none"]

PineInit ==
    /\ pc = "searches"
    /\ NoRequest
    /\ fnArg = <<>>
    /\ fnRet = <<>>
    /\ pineClient = FALSE
    /\ pineIndexHandle = FALSE
    /\ pineInitAttempted = FALSE
    /\ pineEnv \in [sdk : SdkShapes, apiKey : BOOLEAN, client : ClientOutcomes]
    /\ search = [c \in Searches |-> SearchStart]

(* embedding = await embedText(q): a vector, nothing, or an exception *)
EmbedText(c) ==
    /\ search[c].pc = "start"
    /\ \E e \in {"ok", "missing", "throws"} :
          search' = [search EXCEPT ![c].pc = "embedded", ![c].embedding = (e = "ok")]
    /\ UNCHANGED <<pc, handlerVars, fnArg, fnRet, pineClient, pineIndexHandle,
                   pineInitAttempted, pineEnv>>

(* faulty variant of EnsurePineInit: the guard of pineInitAttempted is missing *)
EnsurePineInitRetries(c) ==
    /\ search[c].pc = "embedded"
    /\ IF pineClient /\ pineIndexHandle
       THEN /\ search' = [search EXCEPT ![c].pc = "ready", ![c].handles = TRUE]
            /\ UNCHANGED <<pineClient, pineIndexHandle, pineInitAttempted>>
       ELSE /\ pineInitAttempted' = TRUE
            /\ IF ~pineEnv.apiKey
               THEN /\ search' = [search EXCEPT ![c].pc = "ready", ![c].handles = FALSE]
                    /\ UNCHANGED <<pineClient, pineIndexHandle>>
               ELSE IF pineEnv.sdk = "init"
               THEN /\ search' = [search EXCEPT ![c].pc = "init"]
                    /\ UNCHANGED <<pineClient, pineIndexHandle>>
               ELSE /\ pineClient' = (pineEnv.client # "none")
                    /\ pineIndexHandle' = (pineEnv.client = "handles")
                    /\ search' = [search EXCEPT ![c].pc = "ready",
                                                ![c].handles = (pineEnv.client = "handles")]
    /\ UNCHANGED <<pc, handlerVars, fnArg, fnRet, pineEnv>>

(* ensurePineInit up to its first suspension or its return *)
EnsurePineInit(c) ==
    /\ search[c].pc = "embedded"
    /\ IF pineClient /\ pineIndexHandle
       THEN /\ search' = [search EXCEPT ![c].pc = "ready", ![c].handles = TRUE]
            /\ UNCHANGED <<pineClient, pineIndexHandle, pineInitAttempted>>
       ELSE IF pineInitAttempted
       THEN /\ search' = [search EXCEPT ![c].pc = "ready",
                                        ![c].handles = pineClient /\ pineIndexHandle]
            /\ UNCHANGED <<pineClient, pineIndexHandle, pineInitAttempted>>
       ELSE /\ pineInitAttempted' = TRUE
            /\ IF ~pineEnv.apiKey
               THEN /\ search' = [search EXCEPT ![c].pc = "ready", ![c].handles = FALSE]
                    /\ UNCHANGED <<pineClient, pineIndexHandle>>
               ELSE IF pineEnv.sdk = "init"
               THEN /\ search' = [search EXCEPT ![c].pc = "init"]
                    /\ UNCHANGED <<pineClient, pineIndexHandle>>
               ELSE /\ pineClient' = (pineEnv.client # "none")
                    /\ pineIndexHandle' = (pineEnv.client = "handles")
                    /\ search' = [search EXCEPT ![c].pc = "ready",
                                                ![c].handles = (pineEnv.client = "handles")]
    /\ UNCHANGED <<pc, handlerVars, fnArg, fnRet, pineEnv>>

(* await maybeClient.init(...) settles: the client and the handle are   *)
(* stored, or the remaining construction paths are tried in the same call *)
InitSettles(c) ==
    /\ search[c].pc = "init"
    /\ pineClient' = (pineEnv.client # "none")
    /\ pineIndexHandle' = (pineEnv.client = "handles")
    /\ search' = [search EXCEPT ![c].pc = "ready", ![c].handles = (pineEnv.client = "handles")]
    /\ UNCHANGED <<pc, handlerVars, fnArg, fnRet, pineInitAttempted, pineEnv>>

(* if (pc && idx && embedding): the index query and the result of execute *)
QueryIndex(c) ==
    /\ search[c].pc = "ready"
    /\ IF search[c].handles /\ search[c].embedding
       THEN \E o \in {"ok", "throws"} :
              search' = [search EXCEPT ![c].pc = "done", ![c].query = o,
                                      ![c].out = IF o = "ok" THEN "matches" ELSE "empty"]
       ELSE search' = [search EXCEPT ![c].pc = "done", ![c].query = "skipped",
                                    ![c].out = "empty"]
    /\ UNCHANGED <<pc, handlerVars, fnArg, fnRet, pineClient, pineIndexHandle,
                   pineInitAttempted, pineEnv>>

PineNext ==
    \E c \in Searches :
        \/ EmbedText(c)
        \/ EnsurePineInit(c)
        \/ InitSettles(c)
        \/ QueryIndex(c)

PineSpec == PineInit /\ [][PineNext]_vars

(* ------------------------------------------------------------------------ *)
(* Properties                                                               *)
(* ------------------------------------------------------------------------ *)

Done == pc = "done"
VendorMode == Len(stream) >= 2 /\ stream[2] = Seg("text-start", textId)
OuterApology == "Something went wrong while fetching vendors."
Says(delta) == \E i \in 1..Len(stream) : stream[i].type = "text-delta" /\ stream[i].delta = delta
CountOf(s, type) == Cardinality({i \in 1..Len(s) : s[i].type = type})
MessageBody(t) == [kind |-> "message", message |-> t]

(* s begins start, text-start, n >= 1 text-delta, text-end, finish *)
TerminatedPrefix(s) ==
    \E n \in 1..(Len(s) - 4) :
        /\ s[1].type = "start" /\ s[2].type = "text-start"
        /\ \A i \in 3..(n + 2) : s[i].type = "text-delta"
        /\ s[n + 3].type = "text-end" /\ s[n + 4].type = "finish"

(* s is exactly start, text-start, n >= 1 text-delta, text-end, finish *)
ExactSequence(s) ==
    /\ Len(s) >= 5
    /\ s[1].type = "start" /\ s[2].type = "text-start"
    /\ \A i \in 3..(Len(s) - 2) : s[i].type = "text-delta"
    /\ s[Len(s) - 1].type = "text-end" /\ s[Len(s)].type = "finish"

(* C1: every vendor-mode request, whichever sub-flow runs and whichever     *)
(* collaborator calls fail or throw, eventually ends with a stream that has *)
(* start, text-start, at least one text-delta, text-end and finish, in that *)
(* order.                                                                   *)
C1_VendorStreamTerminates == (pc = "dispatch") ~> (Done /\ TerminatedPrefix(stream))

(* a vendor-mode request whose web search threw into the outer catch ended *)
(* terminated                                                              *)
C1_Witness ==
    /\ Done /\ VendorMode /\ Len(errors) > 0
    /\ Says(OuterApology)
    /\ TerminatedPrefix(stream)

(* C2: every response the handler writes itself is exactly start,          *)
(* text-start, one or more text-delta, text-end, finish: one text-end, one *)
(* finish, nothing after finish.                                           *)
C2_ExactlyOneEndAndFinish ==
    (Done /\ stream # <<>> /\ stream # LlmStream) =>
        /\ ExactSequence(stream)
        /\ CountOf(stream, "text-end") = 1
        /\ CountOf(stream, "finish") = 1

(* C3: a flagged verdict ends the request with exactly the denial message *)
(* between start/text-start and text-end/finish, and no collaborator but  *)
(* moderation has been called.                                            *)
C3_FlaggedDeniesOnly ==
    modOutcome = "flagged" =>
        /\ Done
        /\ Len(stream) = 5
        /\ <<stream[1].type, stream[2].type, stream[3].type, stream[4].type, stream[5].type>>
             = <<"start", "text-start", "text-delta", "text-end", "finish">>
        /\ stream[3].delta \in {"This request is not allowed.", DefaultDenial}
        /\ \A i \in 1..Len(calls) : calls[i].svc = "moderation"
        /\ flows = <<>>

(* a vendor query was flagged and denied *)
C3_Witness ==
    /\ modOutcome = "flagged" /\ Done
    /\ isVendorQuery(latestUserText)
    /\ stream[3].delta = DefaultDenial

(* C4: the sub-flow that runs is the first of guide, more-details, reviews *)
(* whose predicate holds on the query, generic search when none holds, and *)
(* one sub-flow body runs per request.                                     *)
C4_DispatchPrecedence ==
    LET q == composedQuery
        g == isGuideQuery(q)
        d == isMoreDetailsQuery(q)
        r == isReviewsQuery(q)
    IN  /\ Len(flows) <= 1
        /\ (VendorMode /\ pc # "dispatch") => Len(flows) = 1
        /\ flows # <<>> =>
            /\ VendorMode
            /\ (flows[1] = "guide") = g
            /\ (flows[1] = "details") = (~g /\ d)
            /\ (flows[1] = "reviews") = (~g /\ ~d /\ r)
            /\ (flows[1] = "search") = (~g /\ ~d /\ ~r)
        /\ pc \in {"guide_queries", "guide_llm"} => flows = <<"guide">>
        /\ pc \in {"details_vector", "details_id", "details_name", "details_found",
                   "details_web", "details_llm"} => flows = <<"details">>
        /\ pc \in {"reviews_lookup", "reviews_details", "reviews_llm"} => flows = <<"reviews">>
        /\ pc \in {"search_vector", "search_ids", "search_names", "compose"} => flows = <<"search">>

(* a text matching both the guide and the more-details patterns ran the *)
(* guide flow alone                                                     *)
C4_Witness ==
    /\ Done /\ flows = <<"guide">>
    /\ isGuideQuery(composedQuery) /\ isMoreDetailsQuery(composedQuery)
    /\ calls # <<>>

(* C5: the request "best caterers in Mumbai under 5 lakh" runs the generic *)
(* search with budget 500000 and category caterer, and ends with a         *)
(* shortlist of at most 6 records filtered to the budget.                  *)
C5_BestCaterersIsGenericSearch ==
    (Done /\ body = MessageBody("best caterers in Mumbai under 5 lakh") /\ VendorMode) =>
        /\ flows = <<"search">>
        /\ parseBudget(composedQuery) = Num(500000)
        /\ parseCategory(composedQuery) = "caterer"
        /\ budgetVal = Num(500000)
        /\ filterApplied
        /\ Len(top) <= 6
        /\ \A i \in 1..Len(top) : BudgetKeep(top[i], budgetVal)

(* C6: a reviews request whose vendor the relational store does not hold *)
(* answers with the web-sourced summary.                                 *)
C6_ReviewsWebFallback ==
    (Done /\ body = MessageBody("reviews for Sample Caterers") /\ flows = <<"reviews">>
          /\ ~Has(vendor, "id")) =>
        /\ Says(WebSummary)
        /\ ~Says(NoVendorMessage)

(* C7: a moderation call that throws is a not-flagged verdict: the step    *)
(* goes on to routing and changes nothing else, no denial and no error     *)
(* response follows, and the path taken is the one the classifier selects. *)
C7_ModerationFailOpen ==
    /\ [][(pc = "moderation" /\ modOutcome' = "threw") =>
            /\ pc' = "route"
            /\ UNCHANGED <<reqVars, messages, latestUserText, http, stream, flows,
                           lookupVars, searchVars>>]_vars
    /\ [](modOutcome = "threw" =>
            /\ http.status # 400
            /\ \A i \in 1..Len(stream) : stream[i].id # "moderation-deny"
            /\ (flows # <<>>) => isVendorQuery(latestUserText)
            /\ pc = "general" => ~isVendorQuery(latestUserText)
            /\ Done => (VendorMode = isVendorQuery(latestUserText)))

(* moderation threw and the vendor path served the request *)
C7_Witness ==
    /\ modOutcome = "threw" /\ Done
    /\ VendorMode /\ flows = <<"search">> /\ Len(top) > 0

(* C8: one collaborator error inside a vendor sub-flow never replaces the *)
(* response by an apology.                                                *)
C8_SingleErrorNoApology ==
    (Done /\ flows # <<>> /\ Len(errors) = 1 /\ errors[1] # "moderation") =>
        /\ ~Says(GuideApology)
        /\ ~Says(OuterApology)

(* the entry of the merged list for candidate v, stated from the rows *)
EntryFor(v, e) ==
    IF CandidateId(v) # "" /\ \E j \in 1..Len(dbRows) : dbRows[j].id = CandidateId(v)
    THEN /\ \E j \in 1..Len(dbRows) :
              /\ dbRows[j].id = CandidateId(v)
              /\ \A k \in DOMAIN dbRows[j] : Has(e, k) /\ e[k] = dbRows[j][k]
              /\ DOMAIN e \subseteq DOMAIN dbRows[j] \cup {"_score"}
         /\ Has(v, "_score") => (Has(e, "_score") /\ e["_score"] = v["_score"])
    ELSE /\ \A k \in DOMAIN v : Has(e, k) /\ e[k] = v[k]
         /\ DOMAIN e \subseteq DOMAIN v \cup {"name"}

(* C9: the merged list has one entry per vector candidate, at the same *)
(* index: the row's fields with the candidate's score when the         *)
(* candidate's identifier has a row, the candidate's fields otherwise. *)
C9_MergePreservesVectorOrder ==
    (Done /\ flows = <<"search">> /\ Says(HitsJson)) =>
        /\ Len(merged) = Len(vectResults)
        /\ \A i \in 1..Len(vectResults) : EntryFor(vectResults[i], merged[i])

(* vector order [B, A, C], rows returned as A, B, C, merged order [B, A, C] *)
C9_Witness ==
    /\ Done /\ flows = <<"search">>
    /\ Len(vectResults) = 3
    /\ <<CandidateId(vectResults[1]), CandidateId(vectResults[2]), CandidateId(vectResults[3])>>
         = <<"B", "A", "C">>
    /\ dbRows = <<rowA, rowB, rowC>>
    /\ <<merged[1].id, merged[2].id, merged[3].id>> = <<"B", "A", "C">>

(* the first of the aliases ks the record holds, 0 when it holds none *)
KnownBound(v, ks) ==
    IF Has(v, ks[1]) THEN v[ks[1]] ELSE IF Has(v, ks[2]) THEN v[ks[2]]
    ELSE IF Has(v, ks[3]) THEN v[ks[3]] ELSE 0

(* the keep rule for budget b = num / den *)
KeepRule(v, b) ==
    LET mn == KnownBound(v, <<"price_min", "min_price", "price_from">>)
        mx == KnownBound(v, <<"price_max", "max_price", "price_to">>)
    IN  \/ mn = 0 /\ mx = 0
        \/ mn # 0 /\ mx # 0 /\ mn * b.den <= b.num /\ b.num <= mx * b.den
        \/ mn # 0 /\ mx = 0 /\ b.num >= mn * b.den
        \/ mn = 0 /\ mx # 0 /\ b.num <= mx * b.den

(* C10: the budget filter runs only when a budget was parsed, and keeps  *)
(* exactly the merged records with no known bound, or whose known bounds *)
(* the budget satisfies.                                                 *)
C10_BudgetFilterRule ==
    (Done /\ flows = <<"search">> /\ Says(HitsJson)) =>
        /\ filterApplied => budgetVal.ok
        /\ filterApplied = Truthy(budgetVal)
        /\ filterApplied => filtered = SelectSeq(merged, LAMBDA v : KeepRule(v, budgetVal))
        /\ ~filterApplied => top = Slice(merged, 6)
        /\ BudgetKeep([price_min |-> 40000, price_max |-> 60000], Num(50000))
        /\ ~BudgetKeep([price_min |-> 40000, price_max |-> 60000], Num(70000))
        /\ \A b \in {50000, 70000, 500000} : BudgetKeep([name |-> "Vendor"], Num(b))

(* budget 70000: the record priced 40000 to 60000 is dropped, the record *)
(* without price fields is kept                                          *)
C10_Witness ==
    /\ Done /\ filterApplied /\ budgetVal = Num(70000)
    /\ \E i \in 1..Len(merged) :
        /\ Has(merged[i], "price_min") /\ merged[i].price_min = 40000
        /\ merged[i].price_max = 60000
        /\ \A j \in 1..Len(filtered) : filtered[j] # merged[i]
    /\ \E i \in 1..Len(merged) :
        /\ DOMAIN merged[i] \cap {"price_min", "min_price", "price_from", "price_max",
                                  "max_price", "price_to"} = {}
        /\ \E j \in 1..Len(filtered) : filtered[j] = merged[i]

(* the records of s are records of l, in the order of l *)
InOrderOf(s, l) == s = SelectSeq(l, LAMBDA v : \E j \in 1..Len(s) : s[j] = v)
IsPrefix(s, l) == Len(s) <= Len(l) /\ s = SubSeq(l, 1, Len(s))
Composed == pc = "done" /\ Says(HitsJson)

(* C11: the shortlist of a generic search has at most 6 records and is a    *)
(* prefix of the budget-filtered list, which keeps the merged order (of the *)
(* merged list when no budget was given); when the filter removes every     *)
(* record of a non-empty merged list the shortlist is the first 6 records   *)
(* of the merged list; the shortlist is empty only if the merged list is    *)
C11_ShortlistRule ==
    Composed =>
        /\ Len(top) <= 6
        /\ filterApplied => InOrderOf(filtered, merged)
        /\ IF filterApplied /\ filtered # <<>> THEN IsPrefix(top, filtered)
           ELSE IF filterApplied /\ merged # <<>>
                THEN top = SubSeq(merged, 1, IF Len(merged) < 6 THEN Len(merged) ELSE 6)
                ELSE IsPrefix(top, merged)
        /\ top = <<>> => merged = <<>>

(* more than six records pass the filter and six are shown *)
C11_Witness ==
    /\ Composed
    /\ filterApplied
    /\ Len(filtered) > 6
    /\ Len(top) = 6

WebCalled == \E i \in 1..Len(calls) : calls[i].svc = "web"
CalledOp(op) == \E i \in 1..Len(calls) : calls[i].op = op

HasText(m) == \E j \in 1..Len(m.parts) : m.parts[j].type = "text" /\ m.parts[j].text # ""
UserPositions(ms) == {i \in 1..Len(ms) : ms[i].role = "user"}
Parsed == pc # "received" /\ body.kind \in {"message", "messages"}

(* C13: getLatestUserText returns null (here "") exactly when no user       *)
(* message of the list has a non-empty text part, and otherwise the joined  *)
(* text parts of the last user message                                      *)
C13_NullIffNoUserText ==
    Parsed =>
        /\ latestUserText = "" <=> ~\E i \in UserPositions(messages) : HasText(messages[i])
        /\ latestUserText # "" =>
              \E i \in UserPositions(messages) :
                  /\ \A h \in UserPositions(messages) : h <= i
                  /\ latestUserText = JoinTexts(messages[i].parts)

(* C14: normalizeVectorResults is total: for null, an object or primitive   *)
(* without recognized key, recognized keys that hold non-arrays, and arrays *)
(* with null or empty elements it returns an array and raises nothing; when *)
(* its body raises, the result is the empty array                           *)
C14_NormalizerTotal ==
    pc = Returns("normalizeVectorResults") =>
        /\ ~fnRet.threw
        /\ Len(fnRet.value) >= 0
        /\ TryNormalize(fnArg).threw => fnRet.value = <<>>

(* the mapping of a matches array with a null element raised, and the *)
(* function returned the empty array                                  *)
C14_Witness ==
    /\ pc = Returns("normalizeVectorResults")
    /\ fnArg = Result("matches" :> <<matchA, NullItem>>)
    /\ TryNormalize(fnArg).threw
    /\ fnRet = Returned(<<>>)

(* the input holds one array, at top level or under one documented key, *)
(* and every element of the array is an object                          *)
OneArrayInput ==
    /\ ~fnArg.isNull
    /\ "others" \notin DOMAIN fnArg
    /\ Cardinality(DOMAIN fnArg.keys) = 1
    /\ \A k \in DOMAIN fnArg.keys : k \in ShapeKeys /\ ~MapThrows(fnArg.keys[k])

(* C15: for an input whose only array of candidates is at top level or      *)
(* under one of vendors, results, items, matches, hits, data.matches,       *)
(* metadata.matches, normalizeVectorResults returns one record per element  *)
(* of that array                                                            *)
C15_EveryDocumentedShape ==
    pc = Returns("normalizeVectorResults") /\ OneArrayInput =>
        \A k \in DOMAIN fnArg.keys : Len(fnRet.value) = Len(fnArg.keys[k])

(* C16: a body that is not valid JSON, or a JSON body with neither a        *)
(* messages array nor a message string, is answered with status 400 and an  *)
(* error body, without stream and without collaborator call; a body with a  *)
(* message string is handled as the one-element list holding that text as a *)
(* user message                                                             *)
C16_BadBodyGets400 ==
    /\ pc # "received" /\ body.kind \notin {"message", "messages"} =>
          /\ pc = "done"
          /\ http.status = 400
          /\ http.error # ""
          /\ stream = <<>>
          /\ calls = <<>>
    /\ pc # "received" /\ body.kind = "message" =>
          /\ messages = <<Msg("user", <<TextPart(body.message)>>)>>
          /\ latestUserText = getLatestUserText(messages)

(* the opening markers of the delimited JSON blocks *)
Sentinels == {"__VENDOR_HITS_JSON__", "__VENDOR_DETAILS_JSON__", "___GUIDE_JSON___"}
HasSentinel(delta) == \E s \in Sentinels : Includes(delta, s)

(* C17: the handler has no debug switch, so debug mode is off in every      *)
(* state: no text-delta holds a delimited JSON block, and a stream that     *)
(* carries a vendor payload carries it in a segment of its own              *)
C17_NoSentinelInText ==
    \A i \in 1..Len(stream) :
        stream[i].type = "text-delta" => ~HasSentinel(stream[i].delta)

(* C18: with valid configuration, a working embedding service and a healthy *)
(* index, every one of the concurrent searches queries the index and        *)
(* returns its matches, whatever the interleaving during the first          *)
(* initialisation of the client                                             *)
C18_ConcurrentSearchesIndependent ==
    \A c \in Searches :
        /\ search[c].pc = "done"
        /\ pineEnv.apiKey
        /\ pineEnv.client = "handles"
        /\ search[c].embedding
        /\ search[c].query # "throws"
        => search[c].query = "ok" /\ search[c].out = "matches"

(* the category terms of the fixed category list, singular and plural *)
MentionsCategory(t) == \E j \in 1..Len(cats) : Includes(t, cats[j])
MatchesGuidePattern(t) == \E k \in guideWords : HasWord(t, k)

(* C19: isGuideQuery(text) holds exactly when the lower-cased text matches  *)
(* the recommend/best/top/guide pattern and mentions a term of the category *)
(* list (caterer, decorator, venue, photographer, dj, makeup, singular or   *)
(* plural)                                                                  *)
C19_GuideIffPatternAndCategory ==
    pc = Returns("isGuideQuery") =>
        fnRet = (MatchesGuidePattern(ToLower(fnArg)) /\ MentionsCategory(ToLower(fnArg)))

(* position of the first digit of the text (0: none) *)
FirstDigit(text) ==
    IF \E i \in 1..Len(text) : IsDigit(Ch(text, i))
    THEN CHOOSE i \in 1..Len(text) :
            IsDigit(Ch(text, i)) /\ \A h \in 1..(i - 1) : ~IsDigit(Ch(text, h))
    ELSE 0
(* the first numeric token of the text, commas removed *)
FirstToken(text) ==
    RemoveCommas(SubSeq(text, FirstDigit(text), NumTokenEnd(text, FirstDigit(text)) - 1))
(* after the token and white space the text goes on with lakh, lakhs, lacs or l *)
LakhFollows(text) ==
    \E u \in {"lakh", "lakhs", "lacs", "l"} :
        MatchAt(ToLower(text), u, WsEnd(text, NumTokenEnd(text, FirstDigit(text))))
(* r is the integer nearest to n * 100000, halves rounded up *)
IsRounded(r, n) ==
    /\ r.ok /\ r.den = 1
    /\ 2 * r.num * n.den - n.den <= 2 * n.num * 100000
    /\ 2 * n.num * 100000 < 2 * r.num * n.den + n.den

(* C20, amended: parseBudget returns null iff the text has no numeric token *)
(* or the token does not parse; otherwise the value of the first token,     *)
(* commas removed, multiplied by 100000 and rounded to the nearest integer  *)
(* exactly when the text goes on, after optional white space and in any     *)
(* case, with lakh, lakhs, lacs or l (also as the start of a longer word),  *)
(* and unchanged otherwise                                                  *)
C20_ParseBudgetRounded ==
    pc = Returns("parseBudget") =>
        IF FirstDigit(fnArg) = 0 \/ ~ToNumber(FirstToken(fnArg)).ok THEN fnRet = NoNumber
        ELSE IF LakhFollows(fnArg) THEN IsRounded(fnRet, ToNumber(FirstToken(fnArg)))
        ELSE fnRet = ToNumber(FirstToken(fnArg))

(* C20: parseBudget returns null iff the text has no numeric token or the   *)
(* token does not parse; otherwise the value of the first token, commas     *)
(* removed, multiplied by 100000 exactly when a lakh-family unit follows    *)
(* and unchanged otherwise; "5 lakh" gives 500000, a rupee sign before      *)
(* 50000 gives 50000, "hello" gives null                                    *)
C20_ParseBudgetExact ==
    pc = Returns("parseBudget") =>
        /\ IF FirstDigit(fnArg) = 0 \/ ~ToNumber(FirstToken(fnArg)).ok THEN fnRet = NoNumber
           ELSE IF LakhFollows(fnArg)
                THEN fnRet.ok /\ fnRet.num * ToNumber(FirstToken(fnArg)).den
                                   = ToNumber(FirstToken(fnArg)).num * 100000 * fnRet.den
                ELSE fnRet = ToNumber(FirstToken(fnArg))
        /\ fnArg = "5 lakh" => fnRet = Num(500000)
        /\ fnArg = "₹50000" => fnRet = Num(50000)
        /\ fnArg = "hello" => fnRet = NoNumber

(* a number with more than five decimals of a lakh was rounded; and the *)
(* examples of the specification were computed                          *)
C20_Witness ==
    /\ pc = Returns("parseBudget")
    /\ fnArg = "0.000008 lakh"
    /\ fnRet = Num(1)

(* C21: vectorDatabaseSearch.execute always returns an object with matches *)
(* and vendors, vendors[i] being built from matches[i]; both lists are     *)
(* empty and the index is not queried when the query is blank, when the    *)
(* embedding is missing or fails, or when the client is not initialised;   *)
(* both are empty when the index query fails; no other collaborator, in    *)
(* particular no relational store, is called                               *)
C21_ExecuteTotalAndAligned ==
    pc = Returns("execute") =>
        /\ ~fnRet.out.isNull
        /\ Len(fnRet.out.keys.vendors) = Len(fnRet.out.keys.matches)
        /\ \A i \in 1..Len(fnRet.out.keys.matches) :
              fnRet.out.keys.vendors[i] = normalizeMatchToVendor(fnRet.out.keys.matches[i])
        /\ (Trim(fnArg.query) = "" \/ fnArg.o.embedding # "ok" \/ ~fnArg.o.init)
              => /\ fnRet.out = EmptySearch
                 /\ \A i \in 1..Len(fnRet.steps) : fnRet.steps[i] # "index.query"
        /\ fnArg.o.query = "throws" => fnRet.out = EmptySearch
        /\ \A i \in 1..Len(fnRet.steps) :
              fnRet.steps[i] \in {"embedText", "ensurePineInit", "index.query"}
        /\ calls = <<>>

(* the index answered with two matches and both became vendors, in order *)
C21_Witness ==
    /\ pc = Returns("execute")
    /\ fnArg.o.raw = <<matchB, matchA>>
    /\ Len(fnRet.out.keys.vendors) = 2
    /\ fnRet.out.keys.vendors[1].id = "pc-b"
    /\ fnRet.out.keys.vendors[2].id = "A"

(* the request passed body validation and left the moderation guard *)
PastModeration == Parsed /\ pc # "moderation"

(* C22: for every request that passes body validation the moderation       *)
(* collaborator is invoked before the request reaches the general LLM path  *)
(* or a vendor sub-flow, also when the latest user message has no text part *)
(* or the list holds no user message                                        *)
C22_ModerationAlwaysAttempted ==
    PastModeration =>
        /\ Len(calls) >= 1
        /\ calls[1].op = "isContentFlagged"

(* the first relational call of the more-details flow was the lookup of the *)
(* vector candidate's identifier, and a relational call raised an error     *)
IdTierRaised ==
    /\ flows = <<"details">>
    /\ vectId # ""
    /\ \E i \in 1..Len(calls) :
          /\ calls[i] = Call("relational", "getVendorDetails", vectId)
          /\ \A j \in 1..(i - 1) : calls[j].svc # "relational"
    /\ \E k \in 1..Len(errors) : errors[k] = "relational"

(* C23: in the more-details flow an error thrown by the lookup of the       *)
(* vector candidate's identifier counts as no result of that tier only: the *)
(* lookup by name is still attempted (the store being configured), and the  *)
(* web search is used only if the lookup by name yields nothing either      *)
C23_IdTierErrorIsolated ==
    IdTierRaised /\ supabase /\ pc \in {"details_web", "details_llm", "done"}
        => CalledOp("byName")

(* the name lookups issued so far *)
NameLookups(cs) == {i \in 1..Len(cs) : cs[i].op = "byNameRows"}
DistinctIds(rows) == \A i, j \in 1..Len(rows) : rows[i].id = rows[j].id => i = j

NoRowsWithoutCandidates == flows = <<"search">> /\ vectResults = <<>> => dbRows = <<>>

(* C25: a generic search whose vector list has no record while relational  *)
(* rows exist emits the relational rows in their own query order: there are *)
(* runs with an empty vector list, a non-empty list of relational rows and  *)
(* a shortlist built from those rows                                        *)
C25_RowsEmittedWithoutCandidates ==
    (pc = "done" /\ flows = <<"search">> /\ Composed /\ supabase /\ vectResults = <<>>)
        => /\ dbRows # <<>>
           /\ merged = dbRows
           /\ top = Slice(dbRows, 6)

(* no row of the store has the identifier of a vector candidate *)
NoStoredCandidate ==
    \A r \in VendorsTable :
        \A j \in 1..Len(VendorIds(vectResults)) : VendorIds(vectResults)[j] # r.id
HoldsNone(list, rows) ==
    \A i \in 1..Len(list) : \A k \in 1..Len(rows) :
        list[i] # rows[k] /\ (Has(list[i], "id") => list[i].id # rows[k].id)

(* C26: in the generic search a row found by the name-based fallback enters *)
(* the merged list only through an identifier match with a candidate: when  *)
(* no stored row has a candidate's identifier, every merged entry is the    *)
(* candidate's own stand-in and no row found by name is in the merged list  *)
(* or in the shortlist, from which prose and payload are built              *)
C26_NameRowsNeverMerged ==
    (Composed /\ flows = <<"search">> /\ NoStoredCandidate)
        => /\ merged = MergeWalk(vectResults, <<>>)
           /\ HoldsNone(merged, dbRows)
           /\ HoldsNone(top, dbRows)

(* the ID lookup found nothing, the lookup by name found a row, and the *)
(* response lists the candidate alone                                   *)
C26_Witness ==
    /\ Composed
    /\ flows = <<"search">>
    /\ NoStoredCandidate
    /\ CalledOp("byIds")
    /\ CalledOp("byNameRows")
    /\ errors = <<>>
    /\ dbRows = <<rowB>>
    /\ Len(top) = 1
    /\ top[1].name = "Royal"

(* the text contains a vendor keyword or a city keyword, in any letter case *)
HasVendorOrCityKeyword(text) ==
    \E t \in {ToLower(text)} : \E k \in vendorKeywords \cup cityKeywords : Includes(t, k)

(* C27: a vendor sub-flow runs only when isVendorQuery holds of the latest  *)
(* user text; a text that asks for more details or for reviews but has no   *)
(* vendor or city keyword is handled by the general LLM path and by no      *)
(* sub-flow; isGuideQuery implies isVendorQuery                             *)
C27_SubFlowsOnlyInVendorMode ==
    /\ (flows # <<>> \/ VendorMode)
          => isVendorQuery(latestUserText) /\ HasVendorOrCityKeyword(latestUserText)
    /\ (Parsed /\ pc = "done" /\ modOutcome # "flagged"
           /\ (isMoreDetailsQuery(latestUserText) \/ isReviewsQuery(latestUserText))
           /\ ~HasVendorOrCityKeyword(latestUserText))
          => flows = <<>> /\ ~VendorMode /\ CalledOp("streamText")
    /\ (Parsed /\ isGuideQuery(latestUserText)) => isVendorQuery(latestUserText)

(* the text of a vendor card button for a name without keyword went to the *)
(* general LLM path                                                        *)
C27_Witness ==
    /\ pc = "done"
    /\ latestUserText = "More details on Royal Feast"
    /\ isMoreDetailsQuery(latestUserText)
    /\ flows = <<>>
    /\ CalledOp("streamText")

(* searches suspended in the initialisation of a client *)
Initialising(s) == {c \in Searches : s[c].pc = "init"}
BothHandles == pineClient /\ pineIndexHandle

(* C28: the initialisation of the vector client is attempted at most once   *)
(* per process: once a call of ensurePineInit has started, no later call    *)
(* constructs or initialises a client; if the attempt ended without usable  *)
(* handles every later search returns the empty result without a query and  *)
(* without a new attempt; once both handles are set they are never replaced *)
(* or cleared and every later call gets them                                *)
C28_InitAttemptedOnce ==
    [][/\ pineInitAttempted
            => /\ pineInitAttempted'
               /\ Initialising(search') \subseteq Initialising(search)
               /\ (pineClient' # pineClient \/ pineIndexHandle' # pineIndexHandle)
                     => Initialising(search') # Initialising(search)
       /\ Cardinality(Initialising(search')) <= 1
       /\ (pineInitAttempted /\ ~BothHandles /\ Initialising(search) = {})
            => /\ UNCHANGED <<pineClient, pineIndexHandle, pineInitAttempted>>
               /\ \A c \in Searches :
                     (search[c].pc = "embedded" /\ search'[c].pc = "ready")
                        => ~search'[c].handles
               /\ \A c \in Searches :
                     (search[c].pc = "ready" /\ search'[c].pc = "done")
                        => search'[c].query = "skipped" /\ search'[c].out = "empty"
       /\ BothHandles
            => /\ UNCHANGED <<pineClient, pineIndexHandle>>
               /\ \A c \in Searches :
                     (search[c].pc = "embedded" /\ search'[c].pc = "ready")
                        => search'[c].handles
      ]_vars

(* the first attempt left a client without index handle, and a later search *)
(* with an embedding returned the empty result without querying the index   *)
C28_Witness ==
    /\ pineInitAttempted
    /\ pineClient
    /\ ~pineIndexHandle
    /\ \A c \in Searches : search[c].pc = "done" /\ search[c].embedding
                              /\ search[c].query = "skipped" /\ search[c].out = "empty"

HoldsToken(s) == Includes(s, startToken) \/ Includes(s, endToken)

(* C29: for every text the generic search builds, prose echoing the query  *)
(* followed by the delimited JSON of the structured list, the client reads  *)
(* back a list equal to the structured list and strips the text to the      *)
(* prose, for every query and every field value, also those that hold a     *)
(* token of the payload themselves                                          *)
C29_HitsRoundTrip ==
    pc = Returns("extractVendorHitsFromText") =>
        /\ ~fnRet.read.isNull
        /\ fnRet.read.hits = Structured(fnArg.top)
        /\ fnRet.stripped = Conversational(fnArg.query, fnArg.top)

(* the vendor_ids the matches carry, in the order of the matches *)
MatchedIds(ms) ==
    LET F[i \in 0..Len(ms)] ==
            IF i = 0 THEN <<>>
            ELSE IF Has(ms[i].metadata, "vendor_id")
                 THEN Append(F[i - 1], ms[i].metadata.vendor_id) ELSE F[i - 1]
    IN  F[Len(ms)]
(* positions of the matched ids for which the store answered with a row *)
Answered(ids, rows) == {k \in 1..Len(ids) : \E j \in 1..Len(rows) : rows[j].id = ids[k]}

(* C30: the /api/search handler keeps the ranking of the index: results    *)
(* holds, in the order of the matched vendor_ids, the row of every matched  *)
(* id that has one and nothing else, so it is never longer than matches;    *)
(* the store is not queried when no match carries a vendor_id; a blank q    *)
(* is answered 400 before any collaborator is called                        *)
C30_SearchKeepsRanking ==
    pc = Returns("searchRoute") =>
        /\ Trim(fnArg.q) = "" => fnRet.status = 400 /\ fnRet.called = <<>>
        /\ fnRet.status = 200 =>
              /\ Len(fnRet.results) <= Len(fnRet.matches)
              /\ fnRet.matches = fnArg.matches
              /\ Len(fnRet.results) = Cardinality(Answered(MatchedIds(fnArg.matches), fnArg.store.data))
              /\ \E f \in [1..Len(fnRet.results) -> 1..Len(MatchedIds(fnArg.matches))] :
                    /\ \A i, j \in 1..Len(fnRet.results) : i < j => f[i] < f[j]
                    /\ \A i \in 1..Len(fnRet.results) :
                          /\ fnRet.results[i].id = MatchedIds(fnArg.matches)[f[i]]
                          /\ fnRet.results[i] \in VendorsTable
        /\ MatchedIds(fnArg.matches) = <<>> => \A i \in 1..Len(fnRet.called) : fnRet.called[i] # "store"

(* the store answered in another order than the index ranked, one matched *)
(* id has no row, and results follows the ranking                         *)
C30_Witness ==
    /\ pc = Returns("searchRoute")
    /\ MatchedIds(fnArg.matches) = <<"B", "Z", "A">>
    /\ fnArg.store.data = <<rowA, rowB>>
    /\ fnRet.results = <<rowB, rowA>>

====
